---------------------------- MODULE Spec2Model ----------------------------
(***************************************************************************)
(* Sensor Seal Gateway Server (SSGS): the SSGSCP codec, the per-gateway    *)
(* Client state machine and the server core (process, sendMSG,             *)
(* tickClients) of src/index.js.                                           *)
(*                                                                         *)
(* Buffers are sequences of bytes (0..255); Buffer offset k is index k+1.  *)
(* Date.now() is the variable now (ms since begin()); every handler runs   *)
(* to completion on the single event loop, so each handler is one action   *)
(* and reads one value of now.                                             *)
(***************************************************************************)
EXTENDS Integers, Sequences, FiniteSets, TLC

VARIABLES
    connectedClients,   \* SSGS.connectedClients: sequence of Client records
    timers,             \* pending setTimeout(onreconnect) callbacks, in creation order
    now,                \* Date.now()
    op,                 \* the handler that ran last, with its inputs
    events              \* what that handler did, in order: socket.send calls and callbacks

vars == <<connectedClients, timers, now, op, events>>

---------------------------------------------------------------------------
(* Program constants *)

RECV_MSG_FIFO_MAX_LEN == 100
SENT_MSG_LIST_MAX_LEN == 100
TICK_INTERVAL_MS == 200
RETRANSMISSION_TIMEOUT_MS == 2000
MAX_RETRANSMISSIONS_PER_TICK == 10

CONN == 1
CONNACPT == 2
CONNFAIL == 3
RCPTOK == 10
MSGCONF == 20
MSGSTATUS == 21

---------------------------------------------------------------------------
(* Byte helpers *)

NULL == <<>>            \* JavaScript null / undefined for buffers and packets
UNDEFINED == -1         \* buffer[i] read past the end

RECURSIVE BitXor(_, _)
BitXor(a, b) ==
    IF a = 0 THEN b
    ELSE IF b = 0 THEN a
    ELSE ((a + b) % 2) + 2 * BitXor(a \div 2, b \div 2)

XorTable == [a \in 0..255 |-> [b \in 0..255 |-> BitXor(a, b)]]

ByteXor(a, b) == XorTable[a][b]

At(buffer, i) == IF i + 1 <= Len(buffer) THEN buffer[i + 1] ELSE UNDEFINED

Subarray(buffer, from, to) ==
    SubSeq(buffer, from + 1, IF to < Len(buffer) THEN to ELSE Len(buffer))

Zeros(n) == [i \in 1..n |-> 0]

Fill(n, b) == [i \in 1..n |-> b]

\* one matching value is enough
bufferContainsValues_AnyValue(buffer, offset, array) ==
    \E i \in 0..(Len(array) - 1) : At(buffer, i + offset) = array[i + 1]

\* the loop stops one value early
bufferContainsValues_SkipsLast(buffer, offset, array) ==
    \A i \in 0..(Len(array) - 2) : At(buffer, i + offset) = array[i + 1]

bufferContainsValues(buffer, offset, array) ==
    \A i \in 0..(Len(array) - 1) : At(buffer, i + offset) = array[i + 1]

---------------------------------------------------------------------------
(* AES-256-CTR: the ciphertext is the plaintext XORed byte by byte with a  *)
(* keystream that the key and the 16-byte IV determine.  The keystream is  *)
(* an arbitrary fixed function of (key, iv, position); different keys or   *)
(* IVs give a different byte at every position.                            *)

KeystreamByte(keyMix, ivMix, i) ==
    (keyMix * 31 + ivMix * 17 + i * i * 13 + i * 7 + 101) % 256

AesCtr(key, iv16, input) ==
    LET keyMix == key[1] + key[32]
        ivMix == iv16[1] + iv16[8]
    IN [i \in 1..Len(input) |-> ByteXor(input[i], KeystreamByte(keyMix, ivMix, i - 1))]

---------------------------------------------------------------------------
(* SSGSCP codec *)

PACKET_IDENTIFIER == <<83, 83, 71, 83, 67, 80>>

AUTH_CODE == <<0, 1, 2, 3>>

\* the two bytes are read in the other order
getU16BE_LittleEndian(buffer) == At(buffer, 1) * 256 + At(buffer, 0)

getU16BE(buffer) == At(buffer, 0) * 256 + At(buffer, 1)

setU16BE(value) == <<(value \div 256) % 256, value % 256>>

Packet(packetType, gatewayUID, packetID, payload) ==
    [packetType |-> packetType, gatewayUID |-> gatewayUID,
     packetID |-> packetID, payload |-> payload]

packSSGSCP(packet, key, iv8) ==
    IF packet.packetType < 0 \/ packet.packetType > 255 THEN NULL
    ELSE IF packet.gatewayUID # NULL /\ Len(packet.gatewayUID) # 4 THEN NULL
    ELSE IF packet.packetID < 0 \/ packet.packetID > 65535 THEN NULL
    ELSE
        LET unpaddedLength == 8 + Len(packet.payload)
            paddedLength == unpaddedLength + (4 - (unpaddedLength % 4))
            plaintext ==
                <<packet.packetType>> \o AUTH_CODE \o setU16BE(packet.packetID)
                \o <<Len(packet.payload) % 256>> \o packet.payload
                \o Zeros(paddedLength - unpaddedLength)
            iv == iv8 \o Zeros(8)
            encryptedPortion == AesCtr(key, iv, plaintext)
        IN PACKET_IDENTIFIER \o iv8 \o packet.gatewayUID \o encryptedPortion

\* the length is not checked
isSSGSCP_AnyLength(datagram) == bufferContainsValues(datagram, 0, PACKET_IDENTIFIER)

isSSGSCP(datagram) ==
    IF Len(datagram) < 18 + 8 THEN FALSE
    ELSE bufferContainsValues(datagram, 0, PACKET_IDENTIFIER)

Unparsed == [parsed |-> FALSE, authSuccess |-> FALSE]

parseSSGSCP(datagram, key) ==
    IF ~isSSGSCP(datagram) THEN Unparsed
    ELSE
        LET iv8 == Subarray(datagram, 6, 14)
            gatewayUID == Subarray(datagram, 14, 18)
            encryptedPortion == Subarray(datagram, 18, Len(datagram))
            iv16 == iv8 \o Zeros(8)
            decryptedPortion == AesCtr(key, iv16, encryptedPortion)
            packetType == At(decryptedPortion, 0)
            encryptionAuthenticationCode == Subarray(decryptedPortion, 1, 1 + 4)
            packetID == getU16BE(Subarray(decryptedPortion, 5, 5 + 2))
            payloadLength == At(decryptedPortion, 7)
            payload == Subarray(decryptedPortion, 8, 8 + payloadLength)
        IN IF ~bufferContainsValues(encryptionAuthenticationCode, 0, AUTH_CODE)
           THEN [parsed |-> TRUE, authSuccess |-> FALSE]
           ELSE [parsed |-> TRUE, authSuccess |-> TRUE, packetType |-> packetType,
                 gatewayUID |-> gatewayUID, packetID |-> packetID, payload |-> payload]

parsePacketGatewayUID(datagram) ==
    IF ~isSSGSCP(datagram) THEN NULL ELSE Subarray(datagram, 14, 18)

---------------------------------------------------------------------------
(* Configuration: the authorized-gateway table loadConfig builds once *)

UID_A == <<170, 187, 204, 221>>
UID_B == <<170, 187, 204, 222>>
UID_X == <<0, 0, 0, 1>>             \* not in the table
UID_Y == <<170, 187, 204, 0>>       \* not in the table either

KEY_A == Fill(32, 17)
KEY_B == Fill(32, 34)
ZERO_KEY == Zeros(32)               \* Buffer.alloc(32)

authorizedGateways ==
    << [gatewayUID |-> UID_A, key |-> KEY_A],
       [gatewayUID |-> UID_B, key |-> KEY_B] >>

\* the loop compares 3 of the 4 bytes
gatewayUIDsMatch_ThreeBytes(gatewayUID1, gatewayUID2) ==
    IF gatewayUID1 = NULL \/ gatewayUID2 = NULL THEN FALSE
    ELSE IF Len(gatewayUID1) # 4 /\ Len(gatewayUID2) # 4 THEN FALSE
    ELSE \A i \in 0..2 : At(gatewayUID1, i) = At(gatewayUID2, i)

gatewayUIDsMatch(gatewayUID1, gatewayUID2) ==
    IF gatewayUID1 = NULL \/ gatewayUID2 = NULL THEN FALSE
    ELSE IF Len(gatewayUID1) # 4 /\ Len(gatewayUID2) # 4 THEN FALSE
    ELSE \A i \in 0..3 : At(gatewayUID1, i) = At(gatewayUID2, i)

isAuthorizedGateway(gatewayUID) ==
    \E k \in 1..Len(authorizedGateways) :
        gatewayUIDsMatch(authorizedGateways[k].gatewayUID, gatewayUID)

getGatewayKey(gatewayUID) ==
    IF \E k \in 1..Len(authorizedGateways) :
            gatewayUIDsMatch(authorizedGateways[k].gatewayUID, gatewayUID)
    THEN authorizedGateways[
            CHOOSE k \in 1..Len(authorizedGateways) :
                /\ gatewayUIDsMatch(authorizedGateways[k].gatewayUID, gatewayUID)
                /\ \A j \in 1..(k - 1) :
                    ~gatewayUIDsMatch(authorizedGateways[j].gatewayUID, gatewayUID)].key
    ELSE NULL

---------------------------------------------------------------------------
(* What a handler does, in order *)

NoRinfo == [address |-> "", port |-> 0]

SendEv(packet, port, address) ==
    [ev |-> "send", packet |-> packet, port |-> port, address |-> address,
     gatewayUID |-> NULL, payload |-> NULL]

CallEv(name, gatewayUID, payload) ==
    [ev |-> name, packet |-> NULL, port |-> 0, address |-> "",
     gatewayUID |-> gatewayUID, payload |-> payload]

---------------------------------------------------------------------------
(* Server core *)

\* the packet type of sendCONNACPT left in place
sendCONNFAIL_SendsConnacpt(rinfo, gatewayUID, iv8) ==
    SendEv(packSSGSCP(Packet(CONNACPT, gatewayUID, 0, NULL), ZERO_KEY, iv8),
           rinfo.port, rinfo.address)

sendCONNFAIL(rinfo, gatewayUID, iv8) ==
    SendEv(packSSGSCP(Packet(CONNFAIL, gatewayUID, 0, NULL), ZERO_KEY, iv8),
           rinfo.port, rinfo.address)

sendCONNACPT(rinfo, key, gatewayUID, iv8) ==
    SendEv(packSSGSCP(Packet(CONNACPT, gatewayUID, 0, NULL), key, iv8),
           rinfo.port, rinfo.address)

sendRCPTOK(packetID, rinfo, key, gatewayUID, iv8) ==
    SendEv(packSSGSCP(Packet(RCPTOK, gatewayUID, packetID, NULL), key, iv8),
           rinfo.port, rinfo.address)

\* the first packet ID is 1
NewClient_StartsAtOne(gatewayUID, rinfo, key, t) ==
    [gatewayUID |-> gatewayUID,
     sourcePort |-> rinfo.port,
     remoteAddress |-> rinfo.address,
     lastSeen |-> t,
     sendPacketID |-> 1,
     retransmissionTimeout |-> RETRANSMISSION_TIMEOUT_MS,
     sentMessages |-> <<>>,
     receivedMessageIDsFIFO |-> <<>>,
     key |-> key]

NewClient(gatewayUID, rinfo, key, t) ==
    [gatewayUID |-> gatewayUID,
     sourcePort |-> rinfo.port,
     remoteAddress |-> rinfo.address,
     lastSeen |-> t,
     sendPacketID |-> 0,
     retransmissionTimeout |-> RETRANSMISSION_TIMEOUT_MS,
     sentMessages |-> <<>>,
     receivedMessageIDsFIFO |-> <<>>,
     key |-> key]

\* a full list drops the message that was just pushed, not the oldest
PushSentMessage_DropsNewest(sentMessages, sentMessage) ==
    LET pushed == Append(sentMessages, sentMessage)
    IN IF Len(pushed) > SENT_MSG_LIST_MAX_LEN THEN sentMessages ELSE pushed

\* the oldest message is never removed
PushSentMessage_NeverShifts(sentMessages, sentMessage) ==
    Append(sentMessages, sentMessage)

\* sentMessages.push(sentMessage), then shift() if the list is too long
PushSentMessage(sentMessages, sentMessage) ==
    LET pushed == Append(sentMessages, sentMessage)
    IN IF Len(pushed) > SENT_MSG_LIST_MAX_LEN THEN Tail(pushed) ELSE pushed

\* the modulo is missing
NextPacketID_NoWrap(sendPacketID) == sendPacketID + 1

\* increment the packet ID
NextPacketID(sendPacketID) == (sendPacketID + 1) % 65536

\* a packet that could not be packed is queued and counted all the same
sendMSG_QueuesUnpacked(client, packetType, payload, iv8, t) ==
    LET packet == Packet(packetType, client.gatewayUID, client.sendPacketID, payload)
        packedPacket == packSSGSCP(packet, client.key, iv8)
        sentMessage == [packetID |-> client.sendPacketID, timestamp |-> t,
                        packet |-> packedPacket]
    IN [client |->
            [client EXCEPT
                !.sentMessages = PushSentMessage(client.sentMessages, sentMessage),
                !.sendPacketID = NextPacketID(client.sendPacketID)],
        events |-> IF packedPacket = NULL THEN <<>>
                   ELSE <<SendEv(packedPacket, client.sourcePort, client.remoteAddress)>>]

\* sendMSG: the client after the call and the socket.send calls made
sendMSG(client, packetType, payload, iv8, t) ==
    LET packet == Packet(packetType, client.gatewayUID, client.sendPacketID, payload)
        packedPacket == packSSGSCP(packet, client.key, iv8)
        sentMessage == [packetID |-> client.sendPacketID, timestamp |-> t,
                        packet |-> packedPacket]
    IN IF packedPacket = NULL
       THEN [client |-> client, events |-> <<>>]
       ELSE [client |->
                [client EXCEPT
                    !.sentMessages = PushSentMessage(client.sentMessages, sentMessage),
                    !.sendPacketID = NextPacketID(client.sendPacketID)],
             events |-> <<SendEv(packedPacket, client.sourcePort, client.remoteAddress)>>]

\* find() compares the Buffer objects, which are never the same object
FindClient_NeverFinds(clients, gatewayUID) == 0

\* connectedClients.find(c => gatewayUIDsMatch(c.gatewayUID, uid)): index, 0 if none
FindClient(clients, gatewayUID) ==
    IF \E i \in 1..Len(clients) : gatewayUIDsMatch(clients[i].gatewayUID, gatewayUID)
    THEN CHOOSE i \in 1..Len(clients) :
            /\ gatewayUIDsMatch(clients[i].gatewayUID, gatewayUID)
            /\ \A j \in 1..(i - 1) : ~gatewayUIDsMatch(clients[j].gatewayUID, gatewayUID)
    ELSE 0

\* sentMessages.find(m => m.packetID === packetID): index, 0 if none
FindSentMessage(sentMessages, packetID) ==
    IF \E i \in 1..Len(sentMessages) : sentMessages[i].packetID = packetID
    THEN CHOOSE i \in 1..Len(sentMessages) :
            /\ sentMessages[i].packetID = packetID
            /\ \A j \in 1..(i - 1) : sentMessages[j].packetID # packetID
    ELSE 0

\* Array.prototype.splice(index, 1), index 1-based
Splice(s, index) == SubSeq(s, 1, index - 1) \o SubSeq(s, index + 1, Len(s))

Includes(s, x) == \E i \in 1..Len(s) : s[i] = x

\* a full FIFO drops the packetID that was just pushed, not the oldest
PushReceivedID_DropsNewest(fifo, packetID) ==
    LET pushed == Append(fifo, packetID)
    IN IF Len(pushed) > RECV_MSG_FIFO_MAX_LEN THEN fifo ELSE pushed

\* shift() already when the FIFO reaches RECV_MSG_FIFO_MAX_LEN
PushReceivedID_ShiftsAtLimit(fifo, packetID) ==
    LET pushed == Append(fifo, packetID)
    IN IF Len(pushed) >= RECV_MSG_FIFO_MAX_LEN THEN Tail(pushed) ELSE pushed

\* the length test is inverted: shift() while the FIFO is short
PushReceivedID_ShiftsWhenShort(fifo, packetID) ==
    LET pushed == Append(fifo, packetID)
    IN IF Len(pushed) < RECV_MSG_FIFO_MAX_LEN THEN Tail(pushed) ELSE pushed

\* receivedMessageIDsFIFO.push(packetID), then shift() if the FIFO is too long
PushReceivedID(fifo, packetID) ==
    LET pushed == Append(fifo, packetID)
    IN IF Len(pushed) > RECV_MSG_FIFO_MAX_LEN THEN Tail(pushed) ELSE pushed

\* sentMessages is not cleared
ResetClient_KeepsSentMessages(client, rinfo) ==
    [client EXCEPT
        !.sendPacketID = 0,
        !.retransmissionTimeout = RETRANSMISSION_TIMEOUT_MS,
        !.receivedMessageIDsFIFO = <<>>,
        !.remoteAddress = rinfo.address,
        !.sourcePort = rinfo.port]

\* a CONN from a connected gateway: the part of the state machine that is reset
ResetClient(client, rinfo) ==
    [client EXCEPT
        !.sendPacketID = 0,
        !.retransmissionTimeout = RETRANSMISSION_TIMEOUT_MS,
        !.sentMessages = <<>>,
        !.receivedMessageIDsFIFO = <<>>,
        !.remoteAddress = rinfo.address,
        !.sourcePort = rinfo.port]

\* an RCPTOK acknowledges every entry up to the one it names
RemoveAcknowledged_RemovesThrough(sentMessages, packetID) ==
    LET index == FindSentMessage(sentMessages, packetID)
    IN IF index # 0 THEN SubSeq(sentMessages, index + 1, Len(sentMessages))
       ELSE sentMessages

\* an RCPTOK that matches no entry removes the oldest one
RemoveAcknowledged_RemovesHead(sentMessages, packetID) ==
    LET index == FindSentMessage(sentMessages, packetID)
    IN IF index # 0 THEN Splice(sentMessages, index) ELSE Tail(sentMessages)

\* an RCPTOK: the sentMessages entry it acknowledges is removed
RemoveAcknowledged(sentMessages, packetID) ==
    LET index == FindSentMessage(sentMessages, packetID)
    IN IF index # 0 THEN Splice(sentMessages, index) ELSE sentMessages

Result(clients, evs, newTimers) ==
    [clients |-> clients, events |-> evs, timers |-> newTimers]

\* onmessage is called before the RCPTOK is sent
processExisting_DeliversFirst(clients, i, parsedPacket, rinfo, key, iv8, t) ==
    LET client == [clients[i] EXCEPT !.lastSeen = t]
        type == parsedPacket.packetType
    IN IF type = CONN THEN
            Result([clients EXCEPT ![i] = ResetClient(client, rinfo)],
                   <<sendCONNACPT(rinfo, key, parsedPacket.gatewayUID, iv8)>>,
                   <<[client |-> i, due |-> t + RETRANSMISSION_TIMEOUT_MS]>>)
       ELSE IF type = RCPTOK THEN
            Result([clients EXCEPT ![i] =
                        [client EXCEPT !.sentMessages =
                            RemoveAcknowledged(client.sentMessages, parsedPacket.packetID)]],
                   <<>>, <<>>)
       ELSE IF type = MSGSTATUS THEN
            IF Includes(client.receivedMessageIDsFIFO, parsedPacket.packetID)
            THEN Result([clients EXCEPT ![i] = client],
                        <<sendRCPTOK(parsedPacket.packetID, rinfo, key,
                                     parsedPacket.gatewayUID, iv8)>>,
                        <<>>)
            ELSE Result([clients EXCEPT ![i] =
                            [client EXCEPT !.receivedMessageIDsFIFO =
                                PushReceivedID(client.receivedMessageIDsFIFO,
                                               parsedPacket.packetID)]],
                        <<CallEv("onmessage", parsedPacket.gatewayUID,
                                 parsedPacket.payload),
                          sendRCPTOK(parsedPacket.packetID, rinfo, key,
                                     parsedPacket.gatewayUID, iv8)>>,
                        <<>>)
       ELSE IF type \in {MSGCONF, CONNACPT, CONNFAIL} THEN
            Result([clients EXCEPT ![i] = client], <<>>, <<>>)
       ELSE Result([clients EXCEPT ![i] = client],
                   <<CallEv("assert", NULL, NULL)>>, <<>>)

\* the cases for MSGCONF, CONNACPT and CONNFAIL are missing
processExisting_OutboundToDefault(clients, i, parsedPacket, rinfo, key, iv8, t) ==
    LET client == [clients[i] EXCEPT !.lastSeen = t]
        type == parsedPacket.packetType
    IN IF type = CONN THEN
            Result([clients EXCEPT ![i] = ResetClient(client, rinfo)],
                   <<sendCONNACPT(rinfo, key, parsedPacket.gatewayUID, iv8)>>,
                   <<[client |-> i, due |-> t + RETRANSMISSION_TIMEOUT_MS]>>)
       ELSE IF type = RCPTOK THEN
            Result([clients EXCEPT ![i] =
                        [client EXCEPT !.sentMessages =
                            RemoveAcknowledged(client.sentMessages, parsedPacket.packetID)]],
                   <<>>, <<>>)
       ELSE IF type = MSGSTATUS THEN
            IF Includes(client.receivedMessageIDsFIFO, parsedPacket.packetID)
            THEN Result([clients EXCEPT ![i] = client],
                        <<sendRCPTOK(parsedPacket.packetID, rinfo, key,
                                     parsedPacket.gatewayUID, iv8)>>,
                        <<>>)
            ELSE Result([clients EXCEPT ![i] =
                            [client EXCEPT !.receivedMessageIDsFIFO =
                                PushReceivedID(client.receivedMessageIDsFIFO,
                                               parsedPacket.packetID)]],
                        <<sendRCPTOK(parsedPacket.packetID, rinfo, key,
                                     parsedPacket.gatewayUID, iv8),
                          CallEv("onmessage", parsedPacket.gatewayUID,
                                 parsedPacket.payload)>>,
                        <<>>)
       ELSE Result([clients EXCEPT ![i] = client],
                   <<CallEv("assert", NULL, NULL)>>, <<>>)

\* a packet of unknown type is answered with a CONNFAIL
processExisting_DefaultSendsConnfail(clients, i, parsedPacket, rinfo, key, iv8, t) ==
    LET client == [clients[i] EXCEPT !.lastSeen = t]
        type == parsedPacket.packetType
    IN IF type = CONN THEN
            Result([clients EXCEPT ![i] = ResetClient(client, rinfo)],
                   <<sendCONNACPT(rinfo, key, parsedPacket.gatewayUID, iv8)>>,
                   <<[client |-> i, due |-> t + RETRANSMISSION_TIMEOUT_MS]>>)
       ELSE IF type = RCPTOK THEN
            Result([clients EXCEPT ![i] =
                        [client EXCEPT !.sentMessages =
                            RemoveAcknowledged(client.sentMessages, parsedPacket.packetID)]],
                   <<>>, <<>>)
       ELSE IF type = MSGSTATUS THEN
            IF Includes(client.receivedMessageIDsFIFO, parsedPacket.packetID)
            THEN Result([clients EXCEPT ![i] = client],
                        <<sendRCPTOK(parsedPacket.packetID, rinfo, key,
                                     parsedPacket.gatewayUID, iv8)>>,
                        <<>>)
            ELSE Result([clients EXCEPT ![i] =
                            [client EXCEPT !.receivedMessageIDsFIFO =
                                PushReceivedID(client.receivedMessageIDsFIFO,
                                               parsedPacket.packetID)]],
                        <<sendRCPTOK(parsedPacket.packetID, rinfo, key,
                                     parsedPacket.gatewayUID, iv8),
                          CallEv("onmessage", parsedPacket.gatewayUID,
                                 parsedPacket.payload)>>,
                        <<>>)
       ELSE IF type \in {MSGCONF, CONNACPT, CONNFAIL} THEN
            Result([clients EXCEPT ![i] = client], <<>>, <<>>)
       ELSE Result([clients EXCEPT ![i] = client],
                   <<sendCONNFAIL(rinfo, parsedPacket.gatewayUID, iv8)>>, <<>>)

\* a CONNFAIL from the gateway removes its client
processExisting_ConnfailDisconnects(clients, i, parsedPacket, rinfo, key, iv8, t) ==
    LET client == [clients[i] EXCEPT !.lastSeen = t]
        type == parsedPacket.packetType
    IN IF type = CONN THEN
            Result([clients EXCEPT ![i] = ResetClient(client, rinfo)],
                   <<sendCONNACPT(rinfo, key, parsedPacket.gatewayUID, iv8)>>,
                   <<[client |-> i, due |-> t + RETRANSMISSION_TIMEOUT_MS]>>)
       ELSE IF type = RCPTOK THEN
            Result([clients EXCEPT ![i] =
                        [client EXCEPT !.sentMessages =
                            RemoveAcknowledged(client.sentMessages, parsedPacket.packetID)]],
                   <<>>, <<>>)
       ELSE IF type = MSGSTATUS THEN
            IF Includes(client.receivedMessageIDsFIFO, parsedPacket.packetID)
            THEN Result([clients EXCEPT ![i] = client],
                        <<sendRCPTOK(parsedPacket.packetID, rinfo, key,
                                     parsedPacket.gatewayUID, iv8)>>,
                        <<>>)
            ELSE Result([clients EXCEPT ![i] =
                            [client EXCEPT !.receivedMessageIDsFIFO =
                                PushReceivedID(client.receivedMessageIDsFIFO,
                                               parsedPacket.packetID)]],
                        <<sendRCPTOK(parsedPacket.packetID, rinfo, key,
                                     parsedPacket.gatewayUID, iv8),
                          CallEv("onmessage", parsedPacket.gatewayUID,
                                 parsedPacket.payload)>>,
                        <<>>)
       ELSE IF type = CONNFAIL THEN
            Result(Splice(clients, i), <<>>, <<>>)
       ELSE IF type \in {MSGCONF, CONNACPT} THEN
            Result([clients EXCEPT ![i] = client], <<>>, <<>>)
       ELSE Result([clients EXCEPT ![i] = client],
                   <<CallEv("assert", NULL, NULL)>>, <<>>)

\* every packet of the gateway moves the client to the packet's source
processExisting_FollowsSource(clients, i, parsedPacket, rinfo, key, iv8, t) ==
    LET client == [clients[i] EXCEPT !.lastSeen = t,
                                     !.remoteAddress = rinfo.address,
                                     !.sourcePort = rinfo.port]
        type == parsedPacket.packetType
    IN IF type = CONN THEN
            Result([clients EXCEPT ![i] = ResetClient(client, rinfo)],
                   <<sendCONNACPT(rinfo, key, parsedPacket.gatewayUID, iv8)>>,
                   <<[client |-> i, due |-> t + RETRANSMISSION_TIMEOUT_MS]>>)
       ELSE IF type = RCPTOK THEN
            Result([clients EXCEPT ![i] =
                        [client EXCEPT !.sentMessages =
                            RemoveAcknowledged(client.sentMessages, parsedPacket.packetID)]],
                   <<>>, <<>>)
       ELSE IF type = MSGSTATUS THEN
            IF Includes(client.receivedMessageIDsFIFO, parsedPacket.packetID)
            THEN Result([clients EXCEPT ![i] = client],
                        <<sendRCPTOK(parsedPacket.packetID, rinfo, key,
                                     parsedPacket.gatewayUID, iv8)>>,
                        <<>>)
            ELSE Result([clients EXCEPT ![i] =
                            [client EXCEPT !.receivedMessageIDsFIFO =
                                PushReceivedID(client.receivedMessageIDsFIFO,
                                               parsedPacket.packetID)]],
                        <<sendRCPTOK(parsedPacket.packetID, rinfo, key,
                                     parsedPacket.gatewayUID, iv8),
                          CallEv("onmessage", parsedPacket.gatewayUID,
                                 parsedPacket.payload)>>,
                        <<>>)
       ELSE IF type \in {MSGCONF, CONNACPT, CONNFAIL} THEN
            Result([clients EXCEPT ![i] = client], <<>>, <<>>)
       ELSE Result([clients EXCEPT ![i] = client],
                   <<CallEv("assert", NULL, NULL)>>, <<>>)

\* process, for a client that exists (index i): the switch on packetType
processExisting(clients, i, parsedPacket, rinfo, key, iv8, t) ==
    LET client == [clients[i] EXCEPT !.lastSeen = t]
        type == parsedPacket.packetType
    IN IF type = CONN THEN
            Result([clients EXCEPT ![i] = ResetClient(client, rinfo)],
                   <<sendCONNACPT(rinfo, key, parsedPacket.gatewayUID, iv8)>>,
                   <<[client |-> i, due |-> t + RETRANSMISSION_TIMEOUT_MS]>>)
       ELSE IF type = RCPTOK THEN
            Result([clients EXCEPT ![i] =
                        [client EXCEPT !.sentMessages =
                            RemoveAcknowledged(client.sentMessages, parsedPacket.packetID)]],
                   <<>>, <<>>)
       ELSE IF type = MSGSTATUS THEN
            IF Includes(client.receivedMessageIDsFIFO, parsedPacket.packetID)
            THEN Result([clients EXCEPT ![i] = client],
                        <<sendRCPTOK(parsedPacket.packetID, rinfo, key,
                                     parsedPacket.gatewayUID, iv8)>>,
                        <<>>)
            ELSE Result([clients EXCEPT ![i] =
                            [client EXCEPT !.receivedMessageIDsFIFO =
                                PushReceivedID(client.receivedMessageIDsFIFO,
                                               parsedPacket.packetID)]],
                        <<sendRCPTOK(parsedPacket.packetID, rinfo, key,
                                     parsedPacket.gatewayUID, iv8),
                          CallEv("onmessage", parsedPacket.gatewayUID,
                                 parsedPacket.payload)>>,
                        <<>>)
       ELSE IF type \in {MSGCONF, CONNACPT, CONNFAIL} THEN
            Result([clients EXCEPT ![i] = client], <<>>, <<>>)
       ELSE Result([clients EXCEPT ![i] = client],
                   <<CallEv("assert", NULL, NULL)>>, <<>>)

\* the first packet of a gateway is taken as a CONN whatever its type
process_AnyTypeConnects(clients, datagram, rinfo, iv8, t) ==
    LET gatewayUID == parsePacketGatewayUID(datagram)
    IN IF gatewayUID = NULL THEN Result(clients, <<>>, <<>>)
       ELSE IF ~isAuthorizedGateway(gatewayUID) THEN Result(clients, <<>>, <<>>)
       ELSE
        LET key == getGatewayKey(gatewayUID)
            parsedPacket == parseSSGSCP(datagram, key)
            deciphered == CallEv("decipher", gatewayUID, NULL)
        IN IF key = NULL THEN Result(clients, <<>>, <<>>)
           ELSE IF ~parsedPacket.parsed THEN
                Result(clients, <<sendCONNFAIL(rinfo, gatewayUID, iv8)>>, <<>>)
           ELSE IF ~parsedPacket.authSuccess THEN
                Result(clients, <<deciphered, sendCONNFAIL(rinfo, gatewayUID, iv8)>>, <<>>)
           ELSE
            LET i == FindClient(clients, parsedPacket.gatewayUID)
            IN IF i = 0 THEN
                    IF TRUE THEN
                        Result(Append(clients,
                                      NewClient(parsedPacket.gatewayUID, rinfo, key, t)),
                               <<deciphered,
                                 sendCONNACPT(rinfo, key, parsedPacket.gatewayUID, iv8),
                                 CallEv("onconnection", parsedPacket.gatewayUID, NULL)>>,
                               <<>>)
                    ELSE Result(clients,
                                <<deciphered,
                                  sendCONNFAIL(rinfo, parsedPacket.gatewayUID, iv8)>>,
                                <<>>)
               ELSE LET r == processExisting(clients, i, parsedPacket, rinfo, key, iv8, t)
                    IN Result(r.clients, <<deciphered>> \o r.events, r.timers)

\* process(datagram, rinfo): the clients after the call, what it did, the timers it set
process(clients, datagram, rinfo, iv8, t) ==
    LET gatewayUID == parsePacketGatewayUID(datagram)
    IN IF gatewayUID = NULL THEN Result(clients, <<>>, <<>>)
       ELSE IF ~isAuthorizedGateway(gatewayUID) THEN Result(clients, <<>>, <<>>)
       ELSE
        LET key == getGatewayKey(gatewayUID)
            parsedPacket == parseSSGSCP(datagram, key)
            deciphered == CallEv("decipher", gatewayUID, NULL)
        IN IF key = NULL THEN Result(clients, <<>>, <<>>)
           ELSE IF ~parsedPacket.parsed THEN
                Result(clients, <<sendCONNFAIL(rinfo, gatewayUID, iv8)>>, <<>>)
           ELSE IF ~parsedPacket.authSuccess THEN
                Result(clients, <<deciphered, sendCONNFAIL(rinfo, gatewayUID, iv8)>>, <<>>)
           ELSE
            LET i == FindClient(clients, parsedPacket.gatewayUID)
            IN IF i = 0 THEN
                    IF parsedPacket.packetType = CONN THEN
                        Result(Append(clients,
                                      NewClient(parsedPacket.gatewayUID, rinfo, key, t)),
                               <<deciphered,
                                 sendCONNACPT(rinfo, key, parsedPacket.gatewayUID, iv8),
                                 CallEv("onconnection", parsedPacket.gatewayUID, NULL)>>,
                               <<>>)
                    ELSE Result(clients,
                                <<deciphered,
                                  sendCONNFAIL(rinfo, parsedPacket.gatewayUID, iv8)>>,
                                <<>>)
               ELSE LET r == processExisting(clients, i, parsedPacket, rinfo, key, iv8, t)
                    IN Result(r.clients, <<deciphered>> \o r.events, r.timers)

\* retransmittedCount goes up with every entry scanned, so the 11th and later
\* entries are never sent again
tickScan_CountsEveryEntry(client, t) ==
    LET sentMessages == client.sentMessages
        retransmitted(k) ==
            /\ k - 1 < MAX_RETRANSMISSIONS_PER_TICK
            /\ t - sentMessages[k].timestamp > client.retransmissionTimeout
        indices == SelectSeq([k \in 1..Len(sentMessages) |-> k], retransmitted)
    IN [client |->
            [client EXCEPT !.sentMessages =
                [k \in 1..Len(sentMessages) |->
                    IF retransmitted(k)
                    THEN [sentMessages[k] EXCEPT !.timestamp = t]
                    ELSE sentMessages[k]]],
        events |->
            [n \in 1..Len(indices) |->
                SendEv(sentMessages[indices[n]].packet, client.sourcePort,
                       client.remoteAddress)]]

\* an overdue message is packed again, with a new IV, before it is sent
tickScan_Repacks(client, t) ==
    LET sentMessages == client.sentMessages
        overdue(k) == t - sentMessages[k].timestamp > client.retransmissionTimeout
        overdueBefore(k) == Cardinality({j \in 1..(k - 1) : overdue(j)})
        retransmitted(k) ==
            /\ overdueBefore(k) < MAX_RETRANSMISSIONS_PER_TICK
            /\ overdue(k)
        repacked(k) ==
            LET q == parseSSGSCP(sentMessages[k].packet, client.key)
            IN packSSGSCP(Packet(q.packetType, q.gatewayUID, q.packetID, q.payload),
                          client.key, <<9, 9, 9, 9, 9, 9, 9, 9>>)
        indices == SelectSeq([k \in 1..Len(sentMessages) |-> k], retransmitted)
    IN [client |->
            [client EXCEPT !.sentMessages =
                [k \in 1..Len(sentMessages) |->
                    IF retransmitted(k)
                    THEN [sentMessages[k] EXCEPT !.timestamp = t, !.packet = repacked(k)]
                    ELSE sentMessages[k]]],
        events |->
            [n \in 1..Len(indices) |->
                SendEv(repacked(indices[n]), client.sourcePort, client.remoteAddress)]]

\* a message is taken as overdue as soon as its age reaches the timeout
tickScan_NotStrict(client, t) ==
    LET sentMessages == client.sentMessages
        overdue(k) == t - sentMessages[k].timestamp >= client.retransmissionTimeout
        overdueBefore(k) == Cardinality({j \in 1..(k - 1) : overdue(j)})
        retransmitted(k) ==
            /\ overdueBefore(k) < MAX_RETRANSMISSIONS_PER_TICK
            /\ overdue(k)
        indices == SelectSeq([k \in 1..Len(sentMessages) |-> k], retransmitted)
    IN [client |->
            [client EXCEPT !.sentMessages =
                [k \in 1..Len(sentMessages) |->
                    IF retransmitted(k)
                    THEN [sentMessages[k] EXCEPT !.timestamp = t]
                    ELSE sentMessages[k]]],
        events |->
            [n \in 1..Len(indices) |->
                SendEv(sentMessages[indices[n]].packet, client.sourcePort,
                       client.remoteAddress)]]

\* retransmittedCount is not tested
tickScan_NoCap(client, t) ==
    LET sentMessages == client.sentMessages
        overdue(k) == t - sentMessages[k].timestamp > client.retransmissionTimeout
        indices == SelectSeq([k \in 1..Len(sentMessages) |-> k], overdue)
    IN [client |->
            [client EXCEPT !.sentMessages =
                [k \in 1..Len(sentMessages) |->
                    IF overdue(k)
                    THEN [sentMessages[k] EXCEPT !.timestamp = t]
                    ELSE sentMessages[k]]],
        events |->
            [n \in 1..Len(indices) |->
                SendEv(sentMessages[indices[n]].packet, client.sourcePort,
                       client.remoteAddress)]]

\* a retransmission leaves the timestamp as it was
tickScan_KeepsTimestamp(client, t) ==
    LET sentMessages == client.sentMessages
        overdue(k) == t - sentMessages[k].timestamp > client.retransmissionTimeout
        overdueBefore(k) == Cardinality({j \in 1..(k - 1) : overdue(j)})
        retransmitted(k) ==
            /\ overdueBefore(k) < MAX_RETRANSMISSIONS_PER_TICK
            /\ overdue(k)
        indices == SelectSeq([k \in 1..Len(sentMessages) |-> k], retransmitted)
    IN [client |-> client,
        events |->
            [n \in 1..Len(indices) |->
                SendEv(sentMessages[indices[n]].packet, client.sourcePort,
                       client.remoteAddress)]]

\* nothing is ever found overdue
tickScan_NeverRetransmits(client, t) == [client |-> client, events |-> <<>>]

\* tickClients, the inner loop over one client's sentMessages.  A message is
\* overdue if now - sentMessage.timestamp > client.retransmissionTimeout; when the
\* loop reaches index k, retransmittedCount is the number of overdue messages
\* before k, or 10 if there are more, because it counts the retransmissions and
\* these stop at 10.  A retransmitted message is sent and its timestamp is set.
tickScan(client, t) ==
    LET sentMessages == client.sentMessages
        overdue(k) == t - sentMessages[k].timestamp > client.retransmissionTimeout
        overdueBefore(k) == Cardinality({j \in 1..(k - 1) : overdue(j)})
        retransmittedCount(k) ==
            IF overdueBefore(k) < MAX_RETRANSMISSIONS_PER_TICK
            THEN overdueBefore(k) ELSE MAX_RETRANSMISSIONS_PER_TICK
        retransmitted(k) ==
            /\ retransmittedCount(k) < MAX_RETRANSMISSIONS_PER_TICK
            /\ overdue(k)
        indices == SelectSeq([k \in 1..Len(sentMessages) |-> k], retransmitted)
    IN [client |->
            [client EXCEPT !.sentMessages =
                [k \in 1..Len(sentMessages) |->
                    IF retransmitted(k)
                    THEN [sentMessages[k] EXCEPT !.timestamp = t]
                    ELSE sentMessages[k]]],
        events |->
            [n \in 1..Len(indices) |->
                SendEv(sentMessages[indices[n]].packet, client.sourcePort,
                       client.remoteAddress)]]

RECURSIVE tickFrom(_, _, _)
tickFrom(clients, i, t) ==
    IF i > Len(clients) THEN [clients |-> clients, events |-> <<>>]
    ELSE LET one == tickScan(clients[i], t)
             rest == tickFrom([clients EXCEPT ![i] = one.client], i + 1, t)
         IN [clients |-> rest.clients, events |-> one.events \o rest.events]

tickClients(clients, t) == tickFrom(clients, 1, t)

---------------------------------------------------------------------------
(* Handlers as actions.  The event loop runs one handler at a time: a       *)
(* handler starts when the loop is idle, runs to completion (one action),   *)
(* and op and events show what it was given and what it did until it        *)
(* returns to the loop.                                                     *)

Idle == [name |-> "idle", datagram |-> NULL, rinfo |-> NoRinfo,
         client |-> 0, payload |-> NULL]

ProcessOp(datagram, rinfo) ==
    [name |-> "process", datagram |-> datagram, rinfo |-> rinfo,
     client |-> 0, payload |-> NULL]

HandlerOp(name, i, payload) ==
    [name |-> name, datagram |-> NULL, rinfo |-> NoRinfo,
     client |-> i, payload |-> payload]

\* socket.on('message'): process(datagram, rinfo); iv8 is what crypto.randomBytes(8)
\* returns if the handler packs a reply
Process(datagram, rinfo, iv8) ==
    LET r == process(connectedClients, datagram, rinfo, iv8, now)
    IN /\ connectedClients' = r.clients
       /\ events' = r.events
       /\ timers' = timers \o r.timers
       /\ UNCHANGED now

\* the application calls connectedClients[i].send(payload)
ClientSend(i, payload, iv8) ==
    LET r == sendMSG(connectedClients[i], MSGCONF, payload, iv8, now)
    IN /\ connectedClients' = [connectedClients EXCEPT ![i] = r.client]
       /\ events' = r.events
       /\ op' = HandlerOp("send", i, payload)
       /\ UNCHANGED <<timers, now>>

\* the application calls sendMSG(connectedClients[i], packetType, payload) itself
CallSendMSG(i, packetType, payload, iv8) ==
    LET r == sendMSG(connectedClients[i], packetType, payload, iv8, now)
    IN /\ connectedClients' = [connectedClients EXCEPT ![i] = r.client]
       /\ events' = r.events
       /\ op' = [name |-> "sendMSG", datagram |-> NULL, rinfo |-> NoRinfo,
                 client |-> i, payload |-> payload, packetType |-> packetType]
       /\ UNCHANGED <<timers, now>>

\* a message whose transmission failed is taken out of sentMessages
SendCallback_DropsFailed(err) ==
    /\ op.name = "send"
    /\ events # <<>>
    /\ events' = <<[events[1] EXCEPT !.ev = "sendCallback", !.payload = err]>>
    /\ op' = [op EXCEPT !.name = "sendCallback"]
    /\ connectedClients' =
        IF err = NULL THEN connectedClients
        ELSE [connectedClients EXCEPT ![op.client].sentMessages =
                SubSeq(@, 1, Len(@) - 1)]
    /\ UNCHANGED <<timers, now>>

\* the callback given to socket.send by sendMSG runs, after sendMSG has returned,
\* with the error of the transmission (NULL if there was none): it logs the error
SendCallback(err) ==
    /\ op.name = "send"
    /\ events # <<>>
    /\ events' = <<[events[1] EXCEPT !.ev = "sendCallback", !.payload = err]>>
    /\ op' = [op EXCEPT !.name = "sendCallback"]
    /\ UNCHANGED <<connectedClients, timers, now>>

\* the setInterval callback: the next multiple of TICK_INTERVAL_MS is reached,
\* after every timeout that was due before it has run
TickAt(t) ==
    /\ \A k \in 1..Len(timers) : timers[k].due >= t
    /\ LET r == tickClients(connectedClients, t)
       IN /\ connectedClients' = r.clients
          /\ events' = r.events
    /\ now' = t
    /\ op' = HandlerOp("tick", 0, NULL)
    /\ UNCHANGED timers

\* the callback runs without waiting for its delay
OnReconnectTimeout_NoDelay ==
    /\ op = Idle
    /\ timers # <<>>
    /\ timers' = Tail(timers)
    /\ events' = <<CallEv("onreconnect",
                          connectedClients[timers[1].client].gatewayUID, NULL)>>
    /\ op' = HandlerOp("onreconnect", timers[1].client, NULL)
    /\ UNCHANGED <<connectedClients, now>>

\* the oldest setTimeout callback runs once its delay has passed: client.onreconnect()
OnReconnectTimeout ==
    /\ op = Idle
    /\ timers # <<>>
    /\ timers[1].due <= now
    /\ timers' = Tail(timers)
    /\ events' = <<CallEv("onreconnect",
                          connectedClients[timers[1].client].gatewayUID, NULL)>>
    /\ op' = HandlerOp("onreconnect", timers[1].client, NULL)
    /\ UNCHANGED <<connectedClients, now>>

\* the handler returns to the event loop
Return ==
    /\ op # Idle
    /\ op' = Idle
    /\ events' = <<>>
    /\ UNCHANGED <<connectedClients, timers, now>>

\* after the constructor and begin(): no clients, no timers
Init ==
    /\ connectedClients = <<>>
    /\ timers = <<>>
    /\ now = 0
    /\ op = Idle
    /\ events = <<>>

---------------------------------------------------------------------------
(* Inputs: datagrams the gateways and the network can produce *)

EP1 == [address |-> "10.0.0.2", port |-> 40000]
EP2 == [address |-> "10.0.0.2", port |-> 40001]
IV1 == <<1, 2, 3, 4, 5, 6, 7, 8>>
IV2 == <<9, 9, 9, 9, 9, 9, 9, 9>>

PayloadP == <<222, 173, 190>>
PayloadQ == <<202, 254>>

\* datagram with the byte at Buffer offset k XORed with mask
XorAt(datagram, k, mask) ==
    [datagram EXCEPT ![k + 1] = ByteXor(datagram[k + 1], mask)]

GatewayPacket(packetType, gatewayUID, packetID, payload, key) ==
    packSSGSCP(Packet(packetType, gatewayUID, packetID, payload), key, IV2)

StatusA7 == GatewayPacket(MSGSTATUS, UID_A, 7, PayloadP, KEY_A)

\* well-formed, authenticated packets of every type
ValidDatagrams ==
    { GatewayPacket(CONN, UID_A, 0, NULL, KEY_A),
      GatewayPacket(CONN, UID_B, 0, NULL, KEY_B),
      GatewayPacket(RCPTOK, UID_A, 0, NULL, KEY_A),
      GatewayPacket(RCPTOK, UID_A, 1, NULL, KEY_A),
      StatusA7,
      GatewayPacket(MSGCONF, UID_A, 0, PayloadQ, KEY_A),
      GatewayPacket(CONNACPT, UID_A, 0, NULL, KEY_A),
      GatewayPacket(CONNFAIL, UID_A, 0, NULL, KEY_A),
      GatewayPacket(99, UID_A, 0, NULL, KEY_A) }

\* well-formed packets that do not authenticate: wrong key, a flipped tag byte
UnauthenticDatagrams ==
    { GatewayPacket(MSGSTATUS, UID_A, 7, PayloadP, KEY_B),
      GatewayPacket(CONN, UID_B, 0, NULL, KEY_A),
      XorAt(StatusA7, 18 + 1, 1),
      XorAt(StatusA7, 18 + 4, 1) }

\* a flipped packet-type byte, a UID that is not in the table, and malformed datagrams
OtherDatagrams ==
    { XorAt(StatusA7, 18, 1),
      GatewayPacket(CONN, UID_X, 0, NULL, KEY_A),
      GatewayPacket(CONN, UID_Y, 0, NULL, KEY_A),
      SubSeq(StatusA7, 1, 25),
      XorAt(StatusA7, 0, 1) }

Datagrams == ValidDatagrams \cup UnauthenticDatagrams \cup OtherDatagrams

\* every datagram arrives from EP1; some also from EP2
Arrivals ==
    (Datagrams \X {EP1})
    \cup ({ GatewayPacket(CONN, UID_A, 0, NULL, KEY_A), StatusA7,
            GatewayPacket(RCPTOK, UID_A, 0, NULL, KEY_A),
            GatewayPacket(MSGCONF, UID_A, 0, PayloadQ, KEY_A),
            XorAt(StatusA7, 18 + 1, 1) } \X {EP2})

\* The clock, the send counters and the pending timeouts grow without bound;
\* the handlers that make one of them grow run only below MaxLoad.
MaxLoad == 2

RECURSIVE SentSinceConnect(_)
SentSinceConnect(clients) ==
    IF clients = <<>> THEN 0
    ELSE Head(clients).sendPacketID + SentSinceConnect(Tail(clients))

Load == (now \div TICK_INTERVAL_MS) + Len(timers) + SentSinceConnect(connectedClients)

\* the datagram authenticates under the key of its (authorized) UID
Authentic(datagram) ==
    LET gatewayUID == parsePacketGatewayUID(datagram)
    IN /\ gatewayUID # NULL
       /\ isAuthorizedGateway(gatewayUID)
       /\ parseSSGSCP(datagram, getGatewayKey(gatewayUID)).authSuccess

\* its fields, when it authenticates
Parsed(datagram) ==
    parseSSGSCP(datagram, getGatewayKey(parsePacketGatewayUID(datagram)))

\* a CONN that process would take as the restart of a connected gateway
IsReconnect(clients, datagram) ==
    /\ Authentic(datagram)
    /\ Parsed(datagram).packetType = CONN
    /\ FindClient(clients, Parsed(datagram).gatewayUID) # 0

Receive ==
    /\ op = Idle
    /\ \E arrival \in Arrivals :
        /\ Load >= MaxLoad => ~IsReconnect(connectedClients, arrival[1])
        /\ Process(arrival[1], arrival[2], IV1)
        /\ op' = ProcessOp(arrival[1], arrival[2])

\* the network delivers the datagram just processed a second time
Redeliver ==
    /\ op.name = "process"
    /\ Load >= MaxLoad => ~IsReconnect(connectedClients, op.datagram)
    /\ Process(op.datagram, op.rinfo, IV1)
    /\ op' = [op EXCEPT !.name = "redeliver"]

Send ==
    /\ op = Idle
    /\ Load < MaxLoad
    /\ \E i \in 1..Len(connectedClients), payload \in {PayloadQ} :
        ClientSend(i, payload, IV1)

Tick ==
    /\ op = Idle
    /\ Load < MaxLoad
    /\ TickAt(now + TICK_INTERVAL_MS)

Next == Receive \/ Redeliver \/ Send \/ Tick \/ Return

Spec == Init /\ [][Next]_vars

---------------------------------------------------------------------------
(* SpecDeep: one gateway whose queues are nearly full and whose packet ID  *)
(* is about to wrap.                                                       *)
(*                                                                         *)
(* The initial state is the state of the server after this run: gateway A  *)
(* connects from EP1 at time 0; the application sends DeepFirstID messages *)
(* that the gateway acknowledges one by one (sendPacketID = DeepFirstID,   *)
(* nothing pending); then, still at time 0, the gateway reports DeepFill   *)
(* status messages (packet IDs 0, 1, ...) and the application sends        *)
(* DeepFill messages that are not acknowledged; ten ticks pass, none of    *)
(* which finds a message older than the retransmission timeout.            *)

DeepFill == SENT_MSG_LIST_MAX_LEN - 1

DeepFirstID == 65536 - SENT_MSG_LIST_MAX_LEN

DeepStartTime == RETRANSMISSION_TIMEOUT_MS

StatusA(packetID) == GatewayPacket(MSGSTATUS, UID_A, packetID, NULL, KEY_A)

\* the client once connected and with DeepFirstID messages sent and acknowledged
DeepDrained ==
    [NewClient(UID_A, EP1, KEY_A, 0) EXCEPT !.sendPacketID = DeepFirstID]

\* what the k-th of the unacknowledged sends leaves in sentMessages
DeepSentMessage(k) ==
    LET sending == [DeepDrained EXCEPT !.sendPacketID = DeepFirstID + (k - 1)]
    IN sendMSG(sending, MSGCONF, PayloadQ, IV1, 0).client.sentMessages[1]

DeepClient ==
    [DeepDrained EXCEPT
        !.sendPacketID = DeepFirstID + DeepFill,
        !.sentMessages = [k \in 1..DeepFill |-> DeepSentMessage(k)],
        !.receivedMessageIDsFIFO = [k \in 1..DeepFill |-> k - 1]]

InitDeep ==
    /\ connectedClients = <<DeepClient>>
    /\ timers = <<>>
    /\ now = DeepStartTime
    /\ op = Idle
    /\ events = <<>>

DeepMaxSends == 2
DeepMaxFresh == 2
DeepMaxTicks == 1

\* the packet ID of the gateway's next new status message
FreshID(fifo) == IF fifo = <<>> THEN DeepFill + DeepMaxFresh ELSE fifo[Len(fifo)] + 1

\* what gateway A sends next: a new status message, a repetition of the oldest or
\* of the newest one the server remembers, a receipt for the oldest or the newest
\* pending message (the gateway acknowledges while DeepFill or more are pending)
\* or for none, or a CONN
DeepDatagrams(client) ==
    LET fifo == client.receivedMessageIDsFIFO
        sent == client.sentMessages
    IN {StatusA(FreshID(fifo)) : x \in {y \in {1} : FreshID(fifo) < DeepFill + DeepMaxFresh}}
       \cup {StatusA(fifo[k]) : k \in {1, Len(fifo)} \cap DOMAIN fifo}
       \cup {GatewayPacket(RCPTOK, UID_A, sent[k].packetID, NULL, KEY_A) :
                k \in {j \in {1, Len(sent)} : Len(sent) >= DeepFill}}
       \cup {GatewayPacket(RCPTOK, UID_A, 7, NULL, KEY_A)}
       \cup {GatewayPacket(CONN, UID_A, 0, NULL, KEY_A) : x \in {y \in {1} : timers = <<>>}}

ReceiveDeep ==
    /\ op = Idle
    /\ \E datagram \in DeepDatagrams(connectedClients[1]) :
        /\ Process(datagram, EP1, IV1)
        /\ op' = ProcessOp(datagram, EP1)

SendDeep ==
    /\ op = Idle
    /\ (connectedClients[1].sendPacketID - DeepFirstID) % 65536 < DeepFill + DeepMaxSends
    /\ ClientSend(1, PayloadQ, IV1)

TickDeep ==
    /\ op = Idle
    /\ now < DeepStartTime + DeepMaxTicks * TICK_INTERVAL_MS
    /\ TickAt(now + TICK_INTERVAL_MS)

NextDeep == ReceiveDeep \/ SendDeep \/ TickDeep \/ Return

SpecDeep == InitDeep /\ [][NextDeep]_vars

---------------------------------------------------------------------------
(* SpecTime: retransmission over time, with a fair event loop.             *)
(*                                                                         *)
(* The initial state is the state of the server after this run: gateway A  *)
(* connects from EP1 at time 0, the application sends one message at time  *)
(* 0, and the ticks up to TimeStart pass without a datagram.               *)
(*                                                                         *)
(* The setInterval callback and a due setTimeout callback run however many *)
(* datagrams arrive (strong fairness: they are not enabled while another   *)
(* handler runs), and every handler returns.                               *)

TimeStart == RETRANSMISSION_TIMEOUT_MS - TICK_INTERVAL_MS

TimeClient == sendMSG(NewClient(UID_A, EP1, KEY_A, 0), MSGCONF, PayloadQ, IV1, 0).client

InitTime ==
    /\ connectedClients = <<TimeClient>>
    /\ timers = <<>>
    /\ now = TimeStart
    /\ op = Idle
    /\ events = <<>>

TimeMaxTicks == 13
TimeBusyTicks == 3
TimeMaxSends == 2

\* the last tick of the model
TimeEnd == TimeStart + TimeMaxTicks * TICK_INTERVAL_MS

\* the gateway and the application are active until this time; after it only the
\* timers run
TimeBusyEnd == TimeStart + TimeBusyTicks * TICK_INTERVAL_MS

\* what gateway A sends next: a receipt for the oldest pending message, a
\* datagram with a corrupted tag, or a CONN (while no onreconnect is pending)
TimeDatagrams(client) ==
    {GatewayPacket(RCPTOK, UID_A, client.sentMessages[k].packetID, NULL, KEY_A) :
        k \in {1} \cap DOMAIN client.sentMessages}
    \cup {XorAt(StatusA7, 18 + 1, 1)}
    \cup {GatewayPacket(CONN, UID_A, 0, NULL, KEY_A) : x \in {y \in {1} : timers = <<>>}}

ReceiveTime ==
    /\ op = Idle
    /\ now < TimeBusyEnd
    /\ \E datagram \in TimeDatagrams(connectedClients[1]) :
        /\ Process(datagram, EP1, IV1)
        /\ op' = ProcessOp(datagram, EP1)

SendTime ==
    /\ op = Idle
    /\ now < TimeBusyEnd
    /\ connectedClients[1].sendPacketID < TimeMaxSends
    /\ ClientSend(1, PayloadQ, IV1)

TickTime ==
    /\ op = Idle
    /\ now < TimeEnd
    /\ TickAt(now + TICK_INTERVAL_MS)

NextTime == ReceiveTime \/ SendTime \/ TickTime \/ OnReconnectTimeout \/ Return

SpecTime ==
    /\ InitTime
    /\ [][NextTime]_vars
    /\ SF_vars(TickTime)
    /\ SF_vars(OnReconnectTimeout)
    /\ WF_vars(Return)

---------------------------------------------------------------------------
(* SpecCap: two gateways, each with more than ten messages overdue.        *)
(*                                                                         *)
(* The initial state is the state of the server after this run: gateway A  *)
(* connects from EP1 and gateway B from EP2 at time 0, the application     *)
(* sends CapFill messages to each at time 0, no receipt arrives, and the   *)
(* ten ticks up to CapStartTime find nothing overdue.                      *)

CapFill == 12
CapMaxSends == 1
CapMaxTicks == 1

CapStartTime == RETRANSMISSION_TIMEOUT_MS

\* what the k-th send to a new client leaves in sentMessages
CapSentMessage(client, k) ==
    LET sending == [client EXCEPT !.sendPacketID = k - 1]
    IN sendMSG(sending, MSGCONF, PayloadQ, IV1, 0).client.sentMessages[1]

CapClient(gatewayUID, rinfo, key) ==
    LET client == NewClient(gatewayUID, rinfo, key, 0)
    IN [client EXCEPT
            !.sendPacketID = CapFill,
            !.sentMessages = [k \in 1..CapFill |-> CapSentMessage(client, k)]]

InitCap ==
    /\ connectedClients = <<CapClient(UID_A, EP1, KEY_A), CapClient(UID_B, EP2, KEY_B)>>
    /\ timers = <<>>
    /\ now = CapStartTime
    /\ op = Idle
    /\ events = <<>>

\* a gateway acknowledges its oldest pending message, while CapFill or more are
\* pending
ReceiveCap ==
    /\ op = Idle
    /\ \E i \in 1..Len(connectedClients) :
        LET client == connectedClients[i]
            rinfo == [address |-> client.remoteAddress, port |-> client.sourcePort]
            datagram == GatewayPacket(RCPTOK, client.gatewayUID,
                                      client.sentMessages[1].packetID, NULL, client.key)
        IN /\ Len(client.sentMessages) >= CapFill
           /\ Process(datagram, rinfo, IV1)
           /\ op' = ProcessOp(datagram, rinfo)

SendCap ==
    /\ op = Idle
    /\ \E i \in 1..Len(connectedClients) :
        /\ connectedClients[i].sendPacketID < CapFill + CapMaxSends
        /\ ClientSend(i, PayloadQ, IV1)

TickCap ==
    /\ op = Idle
    /\ now < CapStartTime + CapMaxTicks * TICK_INTERVAL_MS
    /\ TickAt(now + TICK_INTERVAL_MS)

NextCap == ReceiveCap \/ SendCap \/ TickCap \/ Return

SpecCap == InitCap /\ [][NextCap]_vars

---------------------------------------------------------------------------
(* SpecReconnect: a gateway that connects and reconnects, from the start   *)
(* of the server, with a fair event loop (as in SpecTime).                 *)

ReconnectMaxTicks == 11
ReconnectMaxTimers == 2

\* the last tick of the model
ReconnectEnd == ReconnectMaxTicks * TICK_INTERVAL_MS

\* gateway A sends a CONN (while fewer than ReconnectMaxTimers onreconnect
\* callbacks are pending) or a status message
ReceiveReconnect ==
    /\ op = Idle
    /\ \E datagram \in {GatewayPacket(CONN, UID_A, 0, NULL, KEY_A), StatusA7} :
        /\ IsReconnect(connectedClients, datagram) => Len(timers) < ReconnectMaxTimers
        /\ Process(datagram, EP1, IV1)
        /\ op' = ProcessOp(datagram, EP1)

TickReconnect ==
    /\ op = Idle
    /\ now < ReconnectEnd
    /\ TickAt(now + TICK_INTERVAL_MS)

NextReconnect == ReceiveReconnect \/ TickReconnect \/ OnReconnectTimeout \/ Return

SpecReconnect ==
    /\ Init
    /\ [][NextReconnect]_vars
    /\ SF_vars(TickReconnect)
    /\ SF_vars(OnReconnectTimeout)
    /\ WF_vars(Return)

---------------------------------------------------------------------------
(* SpecCodec: the codec by itself.  A caller packs a packet, and what was  *)
(* packed is then parsed as it is, with a byte changed on the way, cut     *)
(* short, or under another key.                                            *)

\* the longest payload packed; its length fills the one-byte length field
CodecMaxLength == 255

CodecPayload(length) == [i \in 1..length |-> (i * 37 + length) % 256]

CodecEv(name, args, result) == [ev |-> name, args |-> args, result |-> result]

\* SSGSCP.packSSGSCP(packet, key); iv8 is what crypto.randomBytes(8) returns
CallPack(packet, key, iv8) ==
    /\ events' = <<CodecEv("packSSGSCP", [packet |-> packet, key |-> key],
                           packSSGSCP(packet, key, iv8))>>
    /\ op' = HandlerOp("packSSGSCP", 0, packet.payload)
    /\ UNCHANGED <<connectedClients, timers, now>>

\* SSGSCP.parseSSGSCP(datagram, key)
CallParse(datagram, key) ==
    /\ events' = <<CodecEv("parseSSGSCP", [datagram |-> datagram, key |-> key],
                           parseSSGSCP(datagram, key))>>
    /\ op' = HandlerOp("parseSSGSCP", 0, NULL)
    /\ UNCHANGED <<connectedClients, timers, now>>

\* SSGSCP.parsePacketGatewayUID(datagram)
CallParseUID(datagram) ==
    /\ events' = <<CodecEv("parsePacketGatewayUID", [datagram |-> datagram],
                           parsePacketGatewayUID(datagram))>>
    /\ op' = HandlerOp("parsePacketGatewayUID", 0, NULL)
    /\ UNCHANGED <<connectedClients, timers, now>>

\* packets with fields of valid width, of every payload length
CodecPackets ==
    { Packet(f[1], UID_A, f[2], CodecPayload(length)) :
        f \in {<<0, 0>>, <<MSGSTATUS, 258>>, <<255, 65535>>},
        length \in 0..CodecMaxLength }

\* packets with a field out of range
InvalidPackets ==
    { Packet(256, UID_A, 0, PayloadP),
      Packet(-1, UID_A, 0, PayloadP),
      Packet(MSGCONF, <<170, 187, 204>>, 0, PayloadP),
      Packet(MSGCONF, UID_A, 65536, PayloadP),
      Packet(MSGCONF, UID_A, -1, PayloadP) }

CodecKeys == {KEY_A, ZERO_KEY}

\* what can arrive of a packed datagram: itself, a changed byte in the magic, in
\* the packet type, in the tag, in the packetID, or its first 25 bytes
Arriving(packedPacket) ==
    {packedPacket, SubSeq(packedPacket, 1, 25), XorAt(packedPacket, 0, 1)}
    \cup { XorAt(packedPacket, 18 + k, mask) : k \in 0..5, mask \in {1, 128} }

PackCodec ==
    /\ op = Idle
    /\ \E packet \in CodecPackets \cup InvalidPackets, key \in CodecKeys :
        CallPack(packet, key, IV1)

ParseCodec ==
    /\ op.name = "packSSGSCP"
    /\ events[1].result # NULL
    /\ \E datagram \in Arriving(events[1].result), key \in CodecKeys :
        /\ key # events[1].args.key => datagram = events[1].result
        /\ CallParse(datagram, key)

ParseUIDCodec ==
    /\ op.name = "packSSGSCP"
    /\ events[1].result # NULL
    /\ \E datagram \in Arriving(events[1].result) : CallParseUID(datagram)

NextCodec == PackCodec \/ ParseCodec \/ ParseUIDCodec \/ Return

SpecCodec == Init /\ [][NextCodec]_vars

---------------------------------------------------------------------------
(* SpecSendMSG: gateways connect and the application calls sendMSG with    *)
(* packet types of its own choice, some of them wider than one byte.       *)

\* each client is sent at most this many messages
SendMSGMaxSends == 2

SendMSGTypes == {MSGCONF, 256, -1}

ReceiveSendMSG ==
    /\ op = Idle
    /\ \E arrival \in { <<GatewayPacket(CONN, UID_A, 0, NULL, KEY_A), EP1>>,
                        <<GatewayPacket(CONN, UID_B, 0, NULL, KEY_B), EP2>> } :
        /\ ~IsReconnect(connectedClients, arrival[1])
        /\ Process(arrival[1], arrival[2], IV1)
        /\ op' = ProcessOp(arrival[1], arrival[2])

SendSendMSG ==
    /\ op = Idle
    /\ \E i \in 1..Len(connectedClients), packetType \in SendMSGTypes,
          payload \in {PayloadP, PayloadQ} :
        /\ connectedClients[i].sendPacketID < SendMSGMaxSends
        /\ CallSendMSG(i, packetType, payload, IV1)

NextSendMSG == ReceiveSendMSG \/ SendSendMSG \/ Return

SpecSendMSG == Init /\ [][NextSendMSG]_vars

---------------------------------------------------------------------------
(* SpecScan: what one tick retransmits.                                    *)
(*                                                                         *)
(* The initial state is the state of the server after this run: gateways A *)
(* and B connect at time 0, the application sends ScanFill messages to A   *)
(* at time 0 and ScanFewFill messages to B after the tick at 200 ms, no    *)
(* receipt arrives, and the ticks up to ScanStartTime find nothing         *)
(* overdue.  The next ticks find A's messages exactly as old as the        *)
(* timeout, then older, more than ten of them; then the rest of A's and    *)
(* all of B's.                                                             *)

ScanFill == 12
ScanFewFill == 3
ScanMaxSends == 1
ScanMaxTicks == 3

ScanStartTime == RETRANSMISSION_TIMEOUT_MS - TICK_INTERVAL_MS

\* what the k-th send to a new client, at time t, leaves in sentMessages
ScanSentMessage(client, k, t) ==
    LET sending == [client EXCEPT !.sendPacketID = k - 1]
    IN sendMSG(sending, MSGCONF, PayloadQ, IV1, t).client.sentMessages[1]

ScanClient(gatewayUID, rinfo, key, fill, t) ==
    LET client == NewClient(gatewayUID, rinfo, key, 0)
    IN [client EXCEPT
            !.sendPacketID = fill,
            !.sentMessages = [k \in 1..fill |-> ScanSentMessage(client, k, t)]]

InitScan ==
    /\ connectedClients = <<ScanClient(UID_A, EP1, KEY_A, ScanFill, 0),
                            ScanClient(UID_B, EP2, KEY_B, ScanFewFill, TICK_INTERVAL_MS)>>
    /\ timers = <<>>
    /\ now = ScanStartTime
    /\ op = Idle
    /\ events = <<>>

\* gateway A acknowledges its oldest pending message, while ScanFill or more are
\* pending
ReceiveScan ==
    /\ op = Idle
    /\ LET client == connectedClients[1]
           datagram == GatewayPacket(RCPTOK, client.gatewayUID,
                                     client.sentMessages[1].packetID, NULL, client.key)
       IN /\ Len(client.sentMessages) >= ScanFill
          /\ Process(datagram, EP1, IV1)
          /\ op' = ProcessOp(datagram, EP1)

SendScan ==
    /\ op = Idle
    /\ \E i \in 1..Len(connectedClients) :
        /\ connectedClients[1].sendPacketID + connectedClients[2].sendPacketID
                < ScanFill + ScanFewFill + ScanMaxSends
        /\ ClientSend(i, PayloadQ, IV1)

TickScan ==
    /\ op = Idle
    /\ now < ScanStartTime + ScanMaxTicks * TICK_INTERVAL_MS
    /\ TickAt(now + TICK_INTERVAL_MS)

NextScan == ReceiveScan \/ SendScan \/ TickScan \/ Return

SpecScan == InitScan /\ [][NextScan]_vars

---------------------------------------------------------------------------
(* SpecSendError: sends whose UDP transmission fails, with a fair event    *)
(* loop (as in SpecTime).  Gateway A has connected from EP1 at time 0.     *)

SendErrorMaxTicks == 13
SendErrorBusyTicks == 2
SendErrorMaxSends == 2

\* what socket.send passes to its callback: no error, or an error (here by its
\* errno, ENETUNREACH)
SendErrors == {NULL, <<101>>}

\* the last tick of the model
SendErrorEnd == SendErrorMaxTicks * TICK_INTERVAL_MS

\* the gateway and the application are active until this time
SendErrorBusyEnd == SendErrorBusyTicks * TICK_INTERVAL_MS

InitSendError ==
    /\ connectedClients = <<NewClient(UID_A, EP1, KEY_A, 0)>>
    /\ timers = <<>>
    /\ now = 0
    /\ op = Idle
    /\ events = <<>>

ReceiveSendError ==
    /\ op = Idle
    /\ now < SendErrorBusyEnd
    /\ \E datagram \in TimeDatagrams(connectedClients[1]) :
        /\ Process(datagram, EP1, IV1)
        /\ op' = ProcessOp(datagram, EP1)

SendSendError ==
    /\ op = Idle
    /\ now < SendErrorBusyEnd
    /\ connectedClients[1].sendPacketID < SendErrorMaxSends
    /\ ClientSend(1, PayloadQ, IV1)

\* the callback of the send that has just returned runs
CallbackSendError ==
    /\ op.name = "send"
    /\ \E err \in SendErrors : SendCallback(err)

TickSendError ==
    /\ op = Idle
    /\ now < SendErrorEnd
    /\ TickAt(now + TICK_INTERVAL_MS)

NextSendError ==
    \/ ReceiveSendError
    \/ SendSendError
    \/ CallbackSendError
    \/ TickSendError
    \/ OnReconnectTimeout
    \/ Return

SpecSendError ==
    /\ InitSendError
    /\ [][NextSendError]_vars
    /\ SF_vars(TickSendError)
    /\ SF_vars(OnReconnectTimeout)
    /\ WF_vars(Return)

---------------------------------------------------------------------------
(* SpecEvict: sends to a gateway whose sentMessages is full.               *)
(*                                                                         *)
(* The initial state is the state of the server after the run of SpecDeep  *)
(* with one more unacknowledged send at time 0: 100 messages are pending,  *)
(* the last with packetID 65535.                                           *)

EvictMaxSends == 2
EvictMaxTicks == 2

EvictClient ==
    [DeepDrained EXCEPT
        !.sendPacketID = (DeepFirstID + SENT_MSG_LIST_MAX_LEN) % 65536,
        !.sentMessages = [k \in 1..SENT_MSG_LIST_MAX_LEN |-> DeepSentMessage(k)]]

InitEvict ==
    /\ connectedClients = <<EvictClient>>
    /\ timers = <<>>
    /\ now = DeepStartTime
    /\ op = Idle
    /\ events = <<>>

\* gateway A acknowledges the oldest pending message (while 100 are pending) or
\* the first message of the run, which may be pending no more
ReceiveEvict ==
    /\ op = Idle
    /\ \E packetID \in {DeepFirstID} \cup
                       {connectedClients[1].sentMessages[k].packetID :
                            k \in {j \in {1} :
                                Len(connectedClients[1].sentMessages)
                                    = SENT_MSG_LIST_MAX_LEN}} :
        LET datagram == GatewayPacket(RCPTOK, UID_A, packetID, NULL, KEY_A)
        IN /\ Process(datagram, EP1, IV1)
           /\ op' = ProcessOp(datagram, EP1)

SendEvict ==
    /\ op = Idle
    /\ connectedClients[1].sendPacketID < EvictMaxSends
    /\ ClientSend(1, PayloadQ, IV1)

TickEvict ==
    /\ op = Idle
    /\ now < DeepStartTime + EvictMaxTicks * TICK_INTERVAL_MS
    /\ TickAt(now + TICK_INTERVAL_MS)

NextEvict == ReceiveEvict \/ SendEvict \/ TickEvict \/ Return

SpecEvict == InitEvict /\ [][NextEvict]_vars

---------------------------------------------------------------------------
(* SpecWrap: the packet ID wraps while an old message is still pending.    *)
(*                                                                         *)
(* The initial state is the state of the server after this run: gateway A  *)
(* connects from EP1 at time 0; the application sends a first message      *)
(* (packetID 0), which the gateway never acknowledges, and then 65534      *)
(* messages, each of which the gateway acknowledges before the next is     *)
(* sent, all before the first tick; the ticks up to WrapStartTime pass,    *)
(* the last of which retransmits the first message.                        *)

WrapFirstID == 65536 - 1

WrapStartTime == RETRANSMISSION_TIMEOUT_MS + TICK_INTERVAL_MS

WrapMaxSends == 3
WrapMaxTicks == 2

\* the first message, as the tick at WrapStartTime left it
WrapOldMessage ==
    [sendMSG(NewClient(UID_A, EP1, KEY_A, 0), MSGCONF, PayloadP, IV1, 0)
        .client.sentMessages[1] EXCEPT !.timestamp = WrapStartTime]

WrapClient ==
    [NewClient(UID_A, EP1, KEY_A, 0) EXCEPT
        !.sendPacketID = WrapFirstID,
        !.sentMessages = <<WrapOldMessage>>]

InitWrap ==
    /\ connectedClients = <<WrapClient>>
    /\ timers = <<>>
    /\ now = WrapStartTime
    /\ op = Idle
    /\ events = <<>>

\* gateway A acknowledges the message with packetID 0 or the last one before
\* the wrap
ReceiveWrap ==
    /\ op = Idle
    /\ \E packetID \in {0, WrapFirstID} :
        LET datagram == GatewayPacket(RCPTOK, UID_A, packetID, NULL, KEY_A)
        IN /\ Process(datagram, EP1, IV1)
           /\ op' = ProcessOp(datagram, EP1)

SendWrap ==
    /\ op = Idle
    /\ (connectedClients[1].sendPacketID - WrapFirstID) % 65536 < WrapMaxSends
    /\ ClientSend(1, PayloadQ, IV1)

TickWrap ==
    /\ op = Idle
    /\ now < WrapStartTime + WrapMaxTicks * TICK_INTERVAL_MS
    /\ TickAt(now + TICK_INTERVAL_MS)

NextWrap == ReceiveWrap \/ SendWrap \/ TickWrap \/ Return

SpecWrap == InitWrap /\ [][NextWrap]_vars

---------------------------------------------------------------------------
(* SpecStale: a gateway that has reconnected while a receipt was on its    *)
(* way.                                                                    *)
(*                                                                         *)
(* The initial state is the state of the server after this run, all at     *)
(* time 0: gateway A connects from EP1; the application sends a message    *)
(* (packetID 0); the gateway receives it and sends the RCPTOK, which the   *)
(* network holds back; the gateway restarts and its CONN, from EP1, is     *)
(* processed.  From then on the gateway receives nothing (it sends no      *)
(* further RCPTOK); the network delivers the old RCPTOK, once or more      *)
(* often; the gateway may reconnect once more, from EP2.                   *)

StaleMaxSends == 1
StaleMaxTicks == 12

\* the RCPTOK of the message sent before the reconnect
StaleRcptok == GatewayPacket(RCPTOK, UID_A, 0, NULL, KEY_A)

\* process of the reconnect CONN, at time 0, with the message pending
StaleReconnected ==
    process(<<TimeClient>>, GatewayPacket(CONN, UID_A, 0, NULL, KEY_A), EP1, IV1, 0)

InitStale ==
    /\ connectedClients = StaleReconnected.clients
    /\ timers = StaleReconnected.timers
    /\ now = 0
    /\ op = Idle
    /\ events = <<>>

\* the old RCPTOK arrives, or a CONN from EP2 (once)
ReceiveStale ==
    /\ op = Idle
    /\ \E arrival \in {<<StaleRcptok, EP1>>,
                       <<GatewayPacket(CONN, UID_A, 0, NULL, KEY_A), EP2>>} :
        /\ IsReconnect(connectedClients, arrival[1]) =>
                connectedClients[1].sourcePort = EP1.port
        /\ Process(arrival[1], arrival[2], IV1)
        /\ op' = ProcessOp(arrival[1], arrival[2])

SendStale ==
    /\ op = Idle
    /\ connectedClients[1].sendPacketID < StaleMaxSends
    /\ ClientSend(1, PayloadQ, IV1)

TickStale ==
    /\ op = Idle
    /\ now < StaleMaxTicks * TICK_INTERVAL_MS
    /\ TickAt(now + TICK_INTERVAL_MS)

NextStale == ReceiveStale \/ SendStale \/ TickStale \/ OnReconnectTimeout \/ Return

SpecStale == InitStale /\ [][NextStale]_vars

---------------------------------------------------------------------------
(* SpecStarve: a full queue of overdue messages and nothing but ticks and  *)
(* status messages, with a fair event loop (as in SpecTime).               *)
(*                                                                         *)
(* The initial state is the state of the server after this run: gateway A  *)
(* connects from EP1 at time 0, the application sends 100 messages at time *)
(* 0, no receipt arrives, and the ten ticks up to StarveStartTime find     *)
(* nothing overdue.                                                        *)

StarveMaxTicks == 22

StarveStartTime == RETRANSMISSION_TIMEOUT_MS

\* the last tick of the model
StarveEnd == StarveStartTime + StarveMaxTicks * TICK_INTERVAL_MS

InitStarve ==
    /\ connectedClients = <<ScanClient(UID_A, EP1, KEY_A, SENT_MSG_LIST_MAX_LEN, 0)>>
    /\ timers = <<>>
    /\ now = StarveStartTime
    /\ op = Idle
    /\ events = <<>>

\* gateway A sends a status message, the same again and again: no send(), no CONN
\* and no RCPTOK reaches the client
ReceiveStarve ==
    /\ op = Idle
    /\ Process(StatusA7, EP1, IV1)
    /\ op' = ProcessOp(StatusA7, EP1)

TickStarve ==
    /\ op = Idle
    /\ now < StarveEnd
    /\ TickAt(now + TICK_INTERVAL_MS)

NextStarve == ReceiveStarve \/ TickStarve \/ Return

SpecStarve ==
    /\ InitStarve
    /\ [][NextStarve]_vars
    /\ WF_vars(Return)

---------------------------------------------------------------------------
(* SpecDedup: status messages that are repeated long after their first     *)
(* delivery.                                                               *)
(*                                                                         *)
(* The initial state is the state of the server after this run, all at     *)
(* time 0: gateway A connects from EP1 and reports DedupFill status        *)
(* messages, with the packet IDs 0, 1, ... in this order.  The gateway     *)
(* goes on numbering its new status messages; it repeats the most recent   *)
(* one and the first ones (packet IDs below DedupMaxOld); once the server  *)
(* has taken a repetition as new, or after a CONN, the gateway only        *)
(* repeats.                                                                *)

DedupFill == RECV_MSG_FIFO_MAX_LEN - 1

DedupMaxFresh == 3
DedupMaxOld == 3

DedupClient ==
    [NewClient(UID_A, EP1, KEY_A, 0) EXCEPT
        !.receivedMessageIDsFIFO = [k \in 1..DedupFill |-> k - 1]]

InitDedup ==
    /\ connectedClients = <<DedupClient>>
    /\ timers = <<>>
    /\ now = 0
    /\ op = Idle
    /\ events = <<>>

\* the FIFO holds consecutive packet IDs, the oldest first
IsRun(fifo) ==
    /\ fifo # <<>>
    /\ fifo = [k \in 1..Len(fifo) |-> fifo[1] + (k - 1)]

DedupDatagrams(client) ==
    LET fifo == client.receivedMessageIDsFIFO
    IN {StatusA(fifo[Len(fifo)] + 1) :
            x \in {y \in {1} : /\ IsRun(fifo)
                               /\ timers = <<>>
                               /\ fifo[Len(fifo)] + 1 < DedupFill + DedupMaxFresh}}
       \cup {StatusA(fifo[k]) : k \in {Len(fifo)} \cap DOMAIN fifo}
       \cup {StatusA(packetID) : packetID \in 0..(DedupMaxOld - 1)}
       \cup {GatewayPacket(CONN, UID_A, 0, NULL, KEY_A) : x \in {y \in {1} : timers = <<>>}}

ReceiveDedup ==
    /\ op = Idle
    /\ \E datagram \in DedupDatagrams(connectedClients[1]) :
        /\ Process(datagram, EP1, IV1)
        /\ op' = ProcessOp(datagram, EP1)

NextDedup == ReceiveDedup \/ Return

SpecDedup == InitDedup /\ [][NextDedup]_vars

---------------------------------------------------------------------------
(* Reading the record of a handler *)

Sends(evs) == SelectSeq(evs, LAMBDA e : e.ev = "send")

Calls(evs, name) == SelectSeq(evs, LAMBDA e : e.ev = name)

\* e is a socket.send of a packet of this type, UID and packetID, readable under
\* key, to rinfo
IsPacketTo(e, packetType, gatewayUID, packetID, key, rinfo) ==
    /\ e.ev = "send"
    /\ e.port = rinfo.port
    /\ e.address = rinfo.address
    /\ Subarray(e.packet, 14, 18) = gatewayUID
    /\ LET q == parseSSGSCP(e.packet, key)
       IN /\ q.authSuccess
          /\ q.packetType = packetType
          /\ q.gatewayUID = gatewayUID
          /\ q.packetID = packetID

\* the table holds this UID (byte-wise equality over all 4 bytes)
InTable(gatewayUID) ==
    \E k \in 1..Len(authorizedGateways) : authorizedGateways[k].gatewayUID = gatewayUID

KeyOf(gatewayUID) ==
    (CHOOSE g \in {authorizedGateways[k] : k \in 1..Len(authorizedGateways)} :
        g.gatewayUID = gatewayUID).key

\* the clients whose UID is gatewayUID
ClientsOf(clients, gatewayUID) ==
    {i \in 1..Len(clients) : clients[i].gatewayUID = gatewayUID}

\* the handler that has just run (in the primed state) processed a datagram
Processed(o) == o.name \in {"process", "redeliver"}

\* the 4 bytes at offset 1 of the encrypted portion, decrypted under the key of
\* the datagram's UID
DecryptedTag(datagram) ==
    Subarray(AesCtr(KeyOf(Subarray(datagram, 14, 18)),
                    Subarray(datagram, 6, 14) \o Zeros(8),
                    Subarray(datagram, 18, 18 + 5)),
             1, 5)

WellFormed(datagram) ==
    Len(datagram) >= 26 /\ SubSeq(datagram, 1, 6) = PACKET_IDENTIFIER

\* a well-formed datagram of a UID of the table that decrypts, under that UID's
\* key, to a packet with the tag {0,1,2,3}
Genuine(datagram) ==
    /\ WellFormed(datagram)
    /\ InTable(Subarray(datagram, 14, 18))
    /\ DecryptedTag(datagram) = AUTH_CODE

Fields(datagram) == parseSSGSCP(datagram, KeyOf(Subarray(datagram, 14, 18)))

\* the handler that has just run was given a genuine datagram of this type from
\* the gateway of client i
ProcessedFrom(o, clients, i, packetType) ==
    /\ Processed(o)
    /\ Genuine(o.datagram)
    /\ Fields(o.datagram).packetType = packetType
    /\ Fields(o.datagram).gatewayUID = clients[i].gatewayUID

---------------------------------------------------------------------------
(* C2: a MSGSTATUS whose packetID is already in receivedMessageIDsFIFO is  *)
(* acknowledged with exactly one RCPTOK carrying that packetID, is not     *)
(* passed to onmessage and leaves the FIFO as it was; the same MSGSTATUS   *)
(* datagram delivered twice in a row gives one onmessage call and two      *)
(* RCPTOKs in all.                                                         *)

IsDuplicateStatus(clients, datagram) ==
    /\ Genuine(datagram)
    /\ Fields(datagram).packetType = MSGSTATUS
    /\ \E i \in ClientsOf(clients, Fields(datagram).gatewayUID) :
        \E k \in 1..Len(clients[i].receivedMessageIDsFIFO) :
            clients[i].receivedMessageIDsFIFO[k] = Fields(datagram).packetID

OneRcptok(evs, datagram, rinfo) ==
    /\ Len(Sends(evs)) = 1
    /\ IsPacketTo(Sends(evs)[1], RCPTOK, Fields(datagram).gatewayUID,
                  Fields(datagram).packetID, KeyOf(Fields(datagram).gatewayUID), rinfo)

C2_DuplicateStatusNotRedelivered ==
    [][/\ (Processed(op') /\ IsDuplicateStatus(connectedClients, op'.datagram)) =>
            /\ OneRcptok(events', op'.datagram, op'.rinfo)
            /\ Calls(events', "onmessage") = <<>>
            /\ \A i \in 1..Len(connectedClients) :
                connectedClients'[i].receivedMessageIDsFIFO
                    = connectedClients[i].receivedMessageIDsFIFO
       /\ (op.name = "process" /\ op'.name = "redeliver"
           /\ Len(Calls(events, "onmessage")) = 1) =>
            /\ Len(Calls(events, "onmessage")) + Len(Calls(events', "onmessage")) = 1
            /\ OneRcptok(events, op.datagram, op.rinfo)
            /\ OneRcptok(events', op'.datagram, op'.rinfo)
      ]_vars

C2_Witness ==
    /\ op.name = "redeliver"
    /\ Genuine(op.datagram)
    /\ Fields(op.datagram).packetType = MSGSTATUS
    /\ OneRcptok(events, op.datagram, op.rinfo)
    /\ Calls(events, "onmessage") = <<>>

---------------------------------------------------------------------------
(* C6: a well-formed datagram of an authorized UID that fails              *)
(* authentication is answered with exactly one CONNFAIL carrying that UID, *)
(* sent to the datagram's source; no client is created and no client       *)
(* changes in any field.                                                   *)

FailsAuthentication(datagram) ==
    /\ WellFormed(datagram)
    /\ InTable(Subarray(datagram, 14, 18))
    /\ DecryptedTag(datagram) # AUTH_CODE

OneConnfail(evs, datagram, rinfo) ==
    /\ Len(Sends(evs)) = 1
    /\ IsPacketTo(Sends(evs)[1], CONNFAIL, Subarray(datagram, 14, 18), 0, ZERO_KEY, rinfo)

NoCallbacks(evs) ==
    \A k \in 1..Len(evs) : evs[k].ev \in {"send", "decipher"}

C6_AuthFailureConnfailOnly ==
    [][(Processed(op') /\ FailsAuthentication(op'.datagram)) =>
            /\ OneConnfail(events', op'.datagram, op'.rinfo)
            /\ NoCallbacks(events')
            /\ connectedClients' = connectedClients
            /\ timers' = timers
      ]_vars

\* a failed authentication while the gateway is connected, has a message pending
\* and was last seen before now
C6_Witness ==
    /\ op.name = "process"
    /\ FailsAuthentication(op.datagram)
    /\ OneConnfail(events, op.datagram, op.rinfo)
    /\ \E i \in ClientsOf(connectedClients, Subarray(op.datagram, 14, 18)) :
        /\ connectedClients[i].lastSeen < now
        /\ connectedClients[i].sentMessages # <<>>

---------------------------------------------------------------------------
(* C5: the first byte of the encrypted portion of a valid MSGSTATUS is     *)
(* XORed with 0x01.  As stated (exactly one CONNFAIL, no state change):    *)

IsStatusWithByteFlipped(datagram, k) ==
    /\ WellFormed(datagram)
    /\ Genuine(XorAt(datagram, 18 + k, 1))
    /\ Fields(XorAt(datagram, 18 + k, 1)).packetType = MSGSTATUS

C5_Original_FirstByteFlipConnfail ==
    [][(Processed(op') /\ IsStatusWithByteFlipped(op'.datagram, 0)) =>
            /\ OneConnfail(events', op'.datagram, op'.rinfo)
            /\ connectedClients' = connectedClients
            /\ timers' = timers
      ]_vars

(* C5 amended: a flip in one of the four tag bytes (offsets 1..4 of the    *)
(* encrypted portion) gives exactly one CONNFAIL carrying the UID and no   *)
(* state change.  The first byte is the packet type: flipping it leaves    *)
(* the tag intact and the datagram is an authentic MSGCONF, which a        *)
(* connected gateway's client drops (nothing sent, nothing called, only    *)
(* lastSeen set to now) and which gets one CONNFAIL, with no state change, *)
(* when the gateway has no client.                                         *)

OnlyLastSeenSet(clients, clientsAfter, i, t) ==
    clientsAfter = [clients EXCEPT ![i].lastSeen = t]

C5_TagByteFlipConnfail ==
    [][/\ (Processed(op') /\ \E k \in 1..4 : IsStatusWithByteFlipped(op'.datagram, k)) =>
            /\ OneConnfail(events', op'.datagram, op'.rinfo)
            /\ NoCallbacks(events')
            /\ connectedClients' = connectedClients
            /\ timers' = timers
       /\ (Processed(op') /\ IsStatusWithByteFlipped(op'.datagram, 0)) =>
            /\ Genuine(op'.datagram)
            /\ Fields(op'.datagram).packetType = MSGCONF
            /\ timers' = timers
            /\ NoCallbacks(events')
            /\ LET mine == ClientsOf(connectedClients, Subarray(op'.datagram, 14, 18))
               IN IF mine = {}
                  THEN /\ OneConnfail(events', op'.datagram, op'.rinfo)
                       /\ connectedClients' = connectedClients
                  ELSE /\ Sends(events') = <<>>
                       /\ \E i \in mine :
                            OnlyLastSeenSet(connectedClients, connectedClients', i, now)
      ]_vars

\* a tag-byte flip answered with a CONNFAIL while the gateway is connected
C5_Witness ==
    /\ op.name = "process"
    /\ \E k \in 1..4 : IsStatusWithByteFlipped(op.datagram, k)
    /\ OneConnfail(events, op.datagram, op.rinfo)
    /\ ClientsOf(connectedClients, Subarray(op.datagram, 14, 18)) # {}

---------------------------------------------------------------------------
(* C7: a datagram whose UID is not in the authorized table is not          *)
(* decrypted, makes the server send nothing, creates no client and changes *)
(* no client; a datagram that changes the state has a UID of the table.    *)

HasUnauthorizedUID(datagram) ==
    /\ WellFormed(datagram)
    /\ ~InTable(Subarray(datagram, 14, 18))

C7_UnauthorizedIgnored ==
    [][/\ (Processed(op') /\ HasUnauthorizedUID(op'.datagram)) =>
            /\ events' = <<>>
            /\ connectedClients' = connectedClients
            /\ timers' = timers
       /\ (Processed(op') /\ (connectedClients' # connectedClients \/ timers' # timers)) =>
            /\ WellFormed(op'.datagram)
            /\ InTable(Subarray(op'.datagram, 14, 18))
      ]_vars

\* a datagram of a UID outside the table was processed while a client exists
C7_Witness ==
    /\ op.name = "process"
    /\ HasUnauthorizedUID(op.datagram)
    /\ events = <<>>
    /\ connectedClients # <<>>

---------------------------------------------------------------------------
(* C8: after an authentic CONN from a UID that has a client, the client    *)
(* has sendPacketID 0, no sentMessages, an empty receivedMessageIDsFIFO    *)
(* and the CONN's source as remoteAddress/sourcePort; one CONNACPT goes to *)
(* that source; and every send() uses the client's sendPacketID and        *)
(* endpoint, so the sends that follow start at 0 and go there.             *)

IsConnFromConnected(clients, datagram) ==
    /\ Genuine(datagram)
    /\ Fields(datagram).packetType = CONN
    /\ ClientsOf(clients, Fields(datagram).gatewayUID) # {}

OneConnacpt(evs, datagram, rinfo) ==
    /\ Len(Sends(evs)) = 1
    /\ IsPacketTo(Sends(evs)[1], CONNACPT, Fields(datagram).gatewayUID, 0,
                  KeyOf(Fields(datagram).gatewayUID), rinfo)

C8_ReconnectResets ==
    [][/\ (Processed(op') /\ IsConnFromConnected(connectedClients, op'.datagram)) =>
            /\ Len(connectedClients') = Len(connectedClients)
            /\ \A i \in ClientsOf(connectedClients, Fields(op'.datagram).gatewayUID) :
                /\ connectedClients'[i].sendPacketID = 0
                /\ connectedClients'[i].sentMessages = <<>>
                /\ connectedClients'[i].receivedMessageIDsFIFO = <<>>
                /\ connectedClients'[i].remoteAddress = op'.rinfo.address
                /\ connectedClients'[i].sourcePort = op'.rinfo.port
            /\ OneConnacpt(events', op'.datagram, op'.rinfo)
       /\ op'.name = "send" =>
            LET client == connectedClients[op'.client]
            IN /\ Len(events') = 1
               /\ IsPacketTo(events'[1], MSGCONF, client.gatewayUID, client.sendPacketID,
                             client.key,
                             [address |-> client.remoteAddress, port |-> client.sourcePort])
      ]_vars

\* the first send after a CONN from EP2 reset the client: packetID 0, to EP2
C8_Witness ==
    /\ op.name = "send"
    /\ timers # <<>>
    /\ timers[1].client = op.client
    /\ LET client == connectedClients[op.client]
       IN /\ client.sourcePort = EP2.port
          /\ Len(client.sentMessages) = 1
          /\ client.sentMessages[1].packetID = 0
          /\ client.sendPacketID = 1
          /\ IsPacketTo(events[1], MSGCONF, client.gatewayUID, 0, client.key, EP2)

---------------------------------------------------------------------------
(* C9: an authentic CONN from an authorized UID that has no client: one    *)
(* CONNACPT with that UID goes to the datagram's source, one client is     *)
(* added (sendPacketID 0, retransmissionTimeout 2000, empty sentMessages   *)
(* and receivedMessageIDsFIFO, the source endpoint stored), and            *)
(* onconnection is called once, after the CONNACPT was sent.               *)

IsConnFromUnconnected(clients, datagram) ==
    /\ Genuine(datagram)
    /\ Fields(datagram).packetType = CONN
    /\ ClientsOf(clients, Fields(datagram).gatewayUID) = {}

PositionOf(evs, name) == CHOOSE k \in 1..Len(evs) : evs[k].ev = name

C9_FirstConnCreatesClient ==
    [][(Processed(op') /\ IsConnFromUnconnected(connectedClients, op'.datagram)) =>
            /\ OneConnacpt(events', op'.datagram, op'.rinfo)
            /\ Len(Calls(events', "onconnection")) = 1
            /\ Calls(events', "onmessage") = <<>>
            /\ PositionOf(events', "send") < PositionOf(events', "onconnection")
            /\ Len(connectedClients') = Len(connectedClients) + 1
            /\ SubSeq(connectedClients', 1, Len(connectedClients)) = connectedClients
            /\ LET client == connectedClients'[Len(connectedClients')]
               IN /\ client.gatewayUID = Fields(op'.datagram).gatewayUID
                  /\ client.sendPacketID = 0
                  /\ client.retransmissionTimeout = 2000
                  /\ client.sentMessages = <<>>
                  /\ client.receivedMessageIDsFIFO = <<>>
                  /\ client.remoteAddress = op'.rinfo.address
                  /\ client.sourcePort = op'.rinfo.port
                  /\ client.lastSeen = now
            /\ timers' = timers
      ]_vars

\* a second gateway has just connected
C9_Witness ==
    /\ op.name = "process"
    /\ Genuine(op.datagram)
    /\ Fields(op.datagram).packetType = CONN
    /\ Len(Calls(events, "onconnection")) = 1
    /\ Len(connectedClients) = 2
    /\ connectedClients[2].gatewayUID = Fields(op.datagram).gatewayUID

---------------------------------------------------------------------------
(* C10: the connected set never holds two clients with the same gatewayUID *)

C10_OneClientPerUID ==
    \A i, j \in 1..Len(connectedClients) :
        i # j => connectedClients[i].gatewayUID # connectedClients[j].gatewayUID

\* two gateways connected, one of them after a second CONN
C10_Witness ==
    /\ Len(connectedClients) = 2
    /\ timers # <<>>
    /\ op.name = "redeliver"
    /\ Genuine(op.datagram)
    /\ Fields(op.datagram).packetType = CONN

---------------------------------------------------------------------------
(* C1: whatever datagrams, send() calls and ticks were handled, every      *)
(* client has at most 100 sentMessages and at most 100 IDs in              *)
(* receivedMessageIDsFIFO.                                                 *)

C1_QueuesBounded ==
    \A i \in 1..Len(connectedClients) :
        /\ Len(connectedClients[i].sentMessages) <= 100
        /\ Len(connectedClients[i].receivedMessageIDsFIFO) <= 100

\* both queues full, each after its oldest entry was dropped
C1_Witness ==
    /\ Len(connectedClients[1].sentMessages) = 100
    /\ connectedClients[1].sentMessages[1].packetID # DeepFirstID
    /\ Len(connectedClients[1].receivedMessageIDsFIFO) = 100
    /\ connectedClients[1].receivedMessageIDsFIFO[1] # 0

---------------------------------------------------------------------------
(* C3: every send() uses the client's sendPacketID as the packet ID and    *)
(* leaves sendPacketID one higher modulo 65536, so N sends with no CONN in *)
(* between use s, s+1, ..., s+N-1 modulo 65536; after 65535 comes 0, and   *)
(* sendPacketID stays within 0..65535.                                     *)

C3_PacketIDsConsecutive ==
    [][/\ op'.name = "send" =>
            LET before == connectedClients[op'.client]
                after == connectedClients'[op'.client]
            IN /\ Len(events') = 1
               /\ IsPacketTo(events'[1], MSGCONF, before.gatewayUID, before.sendPacketID,
                             before.key,
                             [address |-> before.remoteAddress, port |-> before.sourcePort])
               /\ after.sentMessages[Len(after.sentMessages)].packetID = before.sendPacketID
               /\ after.sendPacketID = (before.sendPacketID + 1) % 65536
               /\ before.sendPacketID = 65535 => after.sendPacketID = 0
       /\ \A i \in 1..Len(connectedClients') :
            connectedClients'[i].sendPacketID \in 0..65535
       /\ (op'.name # "send" /\ \A i \in 1..Len(connectedClients) :
                                    ~ProcessedFrom(op', connectedClients, i, CONN)) =>
            \A i \in 1..Len(connectedClients) :
                connectedClients'[i].sendPacketID = connectedClients[i].sendPacketID
      ]_vars

\* the send after the one that used 65535: packet ID 0, with 65535 still pending
C3_Witness ==
    /\ op.name = "send"
    /\ connectedClients[1].sendPacketID = 1
    /\ \E k \in 1..Len(connectedClients[1].sentMessages) :
        /\ connectedClients[1].sentMessages[k].packetID = 65535
        /\ k + 1 = Len(connectedClients[1].sentMessages)
        /\ connectedClients[1].sentMessages[k + 1].packetID = 0

---------------------------------------------------------------------------
(* C4: a message accepted by send() is placed in sentMessages and stays    *)
(* there until an RCPTOK with its packetID is processed, a CONN of its     *)
(* gateway resets the queue, or a later send() pushes it out as the oldest *)
(* of more than 100; while it stays, fair ticks retransmit it again and    *)
(* again, whatever other sends and datagrams occur.                        *)

\* the position of the message with this packetID in the sentMessages of client i
PendingAt(clients, i, packetID) ==
    {k \in 1..Len(clients[i].sentMessages) :
        clients[i].sentMessages[k].packetID = packetID}

IsPending(i, packetID) ==
    /\ i \in 1..Len(connectedClients)
    /\ PendingAt(connectedClients, i, packetID) # {}

\* the step is a send() to client i that stores its message
Accepted(i) ==
    /\ op'.name = "send"
    /\ op'.client = i
    /\ events' # <<>>

\* the step is a send() to client i that pushes out the oldest of 100 messages
Evicts(i, k) ==
    /\ Accepted(i)
    /\ k = 1
    /\ Len(connectedClients[i].sentMessages) = SENT_MSG_LIST_MAX_LEN

\* the tick that has just run sent the message with this packetID again
Retransmitted(i, packetID) ==
    /\ op.name = "tick"
    /\ \E k \in PendingAt(connectedClients, i, packetID) :
        LET sentMessage == connectedClients[i].sentMessages[k]
        IN /\ sentMessage.timestamp = now
           /\ \E n \in 1..Len(events) :
                events[n] = SendEv(sentMessage.packet, connectedClients[i].sourcePort,
                                   connectedClients[i].remoteAddress)

\* the message was last sent early enough for a tick of the model to find it
\* overdue
BeforeHorizon(i, packetID) ==
    \A k \in PendingAt(connectedClients, i, packetID) :
        connectedClients[i].sentMessages[k].timestamp
            + RETRANSMISSION_TIMEOUT_MS + TICK_INTERVAL_MS <= TimeEnd

\* a stored message leaves sentMessages only for one of the causes
LeavesOnlyBy(Cause(_, _)) ==
    \A i \in 1..Len(connectedClients) :
        \A k \in 1..Len(connectedClients[i].sentMessages) :
            LET packetID == connectedClients[i].sentMessages[k].packetID
            IN PendingAt(connectedClients', i, packetID) = {} => Cause(i, k)

Acknowledged(i, k) ==
    /\ ProcessedFrom(op', connectedClients, i, RCPTOK)
    /\ Fields(op'.datagram).packetID = connectedClients[i].sentMessages[k].packetID

Reset(i, k) == ProcessedFrom(op', connectedClients, i, CONN)

AcknowledgedResetOrEvicted(i, k) ==
    Acknowledged(i, k) \/ Reset(i, k) \/ Evicts(i, k)

\* send() stores the message it sends
StoredBySend ==
    \A i \in 1..Len(connectedClients) :
        Accepted(i) =>
            LET stored == connectedClients'[i].sentMessages
            IN /\ stored # <<>>
               /\ stored[Len(stored)].packetID = connectedClients[i].sendPacketID
               /\ stored[Len(stored)].timestamp = now
               /\ events' = <<SendEv(stored[Len(stored)].packet,
                                     connectedClients[i].sourcePort,
                                     connectedClients[i].remoteAddress)>>

---------------------------------------------------------------------------
(* C11: in one tick a client gets at most 10 retransmissions, however many *)
(* of its sentMessages are overdue and whatever the tick sends to other    *)
(* clients.                                                                *)

\* the datagrams among evs that carry this gateway UID
SendsFor(evs, gatewayUID) ==
    SelectSeq(evs, LAMBDA e : e.ev = "send" /\ Subarray(e.packet, 14, 18) = gatewayUID)

\* the positions of the messages of client i that are older than the timeout at t
OverdueAt(clients, i, t) ==
    {k \in 1..Len(clients[i].sentMessages) :
        t - clients[i].sentMessages[k].timestamp > clients[i].retransmissionTimeout}

C11_TickCapPerClient ==
    [][op'.name = "tick" =>
        \A i \in 1..Len(connectedClients) :
            /\ Len(SendsFor(events', connectedClients[i].gatewayUID)) <= 10
            /\ Cardinality({k \in 1..Len(connectedClients[i].sentMessages) :
                    connectedClients'[i].sentMessages[k]
                        # connectedClients[i].sentMessages[k]}) <= 10
      ]_vars

\* a tick that has sent 10 datagrams to each of two clients and has left overdue
\* messages with both
C11_Witness ==
    /\ op.name = "tick"
    /\ Len(connectedClients) = 2
    /\ \A i \in 1..2 :
        /\ Len(SendsFor(events, connectedClients[i].gatewayUID)) = 10
        /\ OverdueAt(connectedClients, i, now) # {}

---------------------------------------------------------------------------
(* C12: with ticks every 200 ms and a timeout of 2000 ms, the message sent *)
(* at time 0 and not acknowledged is sent again by the tick at 2200 ms and *)
(* by the tick at 4400 ms, and by no tick between; a tick sends only       *)
(* messages that are pending and older than the timeout; an RCPTOK with    *)
(* the packetID of a pending message removes it, so that no later tick     *)
(* sends it.                                                               *)

\* the first tick that finds a message sent at a tick time older than the timeout
RetransmissionPeriod == RETRANSMISSION_TIMEOUT_MS + TICK_INTERVAL_MS

\* the last time at or before t at which the message sent at time 0 is due
LastDue(t) == (t \div RetransmissionPeriod) * RetransmissionPeriod

\* gateway A has sent nothing genuine since it connected at time 0, and the
\* message with packetID 0 is still pending
FirstMessageUnacknowledged ==
    /\ connectedClients[1].lastSeen = 0
    /\ IsPending(1, 0)

C12_RetransmissionSchedule ==
    [][/\ FirstMessageUnacknowledged' =>
            /\ \A k \in PendingAt(connectedClients', 1, 0) :
                connectedClients'[1].sentMessages[k].timestamp = LastDue(now')
            /\ (op'.name = "tick" /\ now' \in {2200, 4400}) => Retransmitted(1, 0)'
            /\ (op'.name = "tick" /\ now' \notin {2200, 4400}) => ~Retransmitted(1, 0)'
       /\ op'.name = "tick" =>
            \A n \in 1..Len(events') :
                \E i \in 1..Len(connectedClients) :
                    \E k \in OverdueAt(connectedClients, i, now') :
                        events'[n] = SendEv(connectedClients[i].sentMessages[k].packet,
                                            connectedClients[i].sourcePort,
                                            connectedClients[i].remoteAddress)
       /\ \A i \in 1..Len(connectedClients) :
            \A k \in 1..Len(connectedClients[i].sentMessages) :
                Acknowledged(i, k) =>
                    /\ PendingAt(connectedClients', i,
                                 connectedClients[i].sentMessages[k].packetID) = {}
                    /\ Len(connectedClients'[i].sentMessages)
                        = Len(connectedClients[i].sentMessages) - 1
      ]_vars

\* the tick at 4400 ms sends the message of time 0 for the third time
C12_Witness ==
    /\ op.name = "tick"
    /\ now = 4400
    /\ FirstMessageUnacknowledged
    /\ Retransmitted(1, 0)
    /\ Len(connectedClients[1].sentMessages) = 1

\* the message of time 0 was sent again at 2200 ms and then acknowledged; the
\* tick at 4400 ms sends nothing
C12_WitnessAcknowledged ==
    /\ op.name = "tick"
    /\ now = 4400
    /\ events = <<>>
    /\ connectedClients[1].lastSeen = 2200
    /\ connectedClients[1].sentMessages = <<>>
    /\ connectedClients[1].sendPacketID = 1

---------------------------------------------------------------------------
(* C13: every MSGCONF, retransmission, RCPTOK and CONNACPT the server      *)
(* sends to a connected gateway goes to the address and port of the most   *)
(* recent CONN processed for its UID.                                      *)

Endpoint(client) == [address |-> client.remoteAddress, port |-> client.sourcePort]

\* the stored endpoint of a client is that of the most recent CONN of its UID: a
\* CONN sets it to the datagram's source and nothing else changes it
EndpointIsOfLastConn ==
    /\ \A i \in 1..Len(connectedClients) :
        Endpoint(connectedClients'[i])
            = IF ProcessedFrom(op', connectedClients, i, CONN)
              THEN op'.rinfo ELSE Endpoint(connectedClients[i])
    /\ \A i \in (Len(connectedClients) + 1)..Len(connectedClients') :
        /\ Processed(op')
        /\ Genuine(op'.datagram)
        /\ Fields(op'.datagram).packetType = CONN
        /\ Fields(op'.datagram).gatewayUID = connectedClients'[i].gatewayUID
        /\ Endpoint(connectedClients'[i]) = op'.rinfo

\* e is a datagram of one of these types for the gateway of this client
IsOfTypeFor(e, client, packetTypes) ==
    /\ e.ev = "send"
    /\ Subarray(e.packet, 14, 18) = client.gatewayUID
    /\ parseSSGSCP(e.packet, client.key).authSuccess
    /\ parseSSGSCP(e.packet, client.key).packetType \in packetTypes

SentToEndpoint(packetTypes) ==
    \A n \in 1..Len(events') :
        \A i \in 1..Len(connectedClients') :
            IsOfTypeFor(events'[n], connectedClients'[i], packetTypes) =>
                /\ events'[n].address = connectedClients'[i].remoteAddress
                /\ events'[n].port = connectedClients'[i].sourcePort

C13_AllSendsToConnEndpoint ==
    [][EndpointIsOfLastConn /\ SentToEndpoint({MSGCONF, RCPTOK, CONNACPT})]_vars

\* the same without the RCPTOK, which goes to the source of the MSGSTATUS
C13_SendsToConnEndpointButRcptok ==
    [][/\ EndpointIsOfLastConn
       /\ SentToEndpoint({MSGCONF, CONNACPT})
       /\ \A n \in 1..Len(events') :
            \A i \in 1..Len(connectedClients') :
                IsOfTypeFor(events'[n], connectedClients'[i], {RCPTOK}) =>
                    /\ Processed(op')
                    /\ events'[n].address = op'.rinfo.address
                    /\ events'[n].port = op'.rinfo.port
      ]_vars

---------------------------------------------------------------------------
(* C14: each authenticated CONN of a gateway that has a client schedules   *)
(* one onreconnect call, which is made once, 2000 ms after the CONN and    *)
(* not earlier; a first CONN and every other handler schedule none, and    *)
(* onreconnect is called in no other way.                                  *)

\* the handler that has just run was given a genuine CONN of a gateway that had
\* a client
ProcessedReconnect ==
    \E i \in 1..Len(connectedClients) : ProcessedFrom(op', connectedClients, i, CONN)

C14_OnReconnectOncePerReconnect ==
    /\ [][/\ ProcessedReconnect =>
               \E i \in 1..Len(connectedClients) :
                   /\ ProcessedFrom(op', connectedClients, i, CONN)
                   /\ timers' = Append(timers, [client |-> i, due |-> now + 2000])
          /\ (~ProcessedReconnect /\ Calls(events', "onreconnect") = <<>>) =>
               timers' = timers
          /\ Calls(events', "onreconnect") # <<>> =>
               /\ op'.name = "onreconnect"
               /\ timers # <<>>
               /\ timers' = Tail(timers)
               /\ now >= timers[1].due
               /\ events' = <<CallEv("onreconnect",
                                     connectedClients[timers[1].client].gatewayUID, NULL)>>
         ]_vars
    /\ (timers # <<>> /\ timers[1].due <= ReconnectEnd)
            ~> (op.name = "onreconnect" /\ Calls(events, "onreconnect") # <<>>)

\* onreconnect is called 2000 ms after the first of two reconnects, with the call
\* for the second still to come
C14_Witness ==
    /\ op.name = "onreconnect"
    /\ events = <<CallEv("onreconnect", UID_A, NULL)>>
    /\ now = 2000
    /\ Len(timers) = 1
    /\ timers[1].due = 2200

---------------------------------------------------------------------------
(* C15: for every payload length L in 0..255, packSSGSCP returns exactly   *)
(* 18 + ceil((8 + L) / 4) * 4 bytes; an empty payload gives an encrypted   *)
(* portion of 8 bytes, 26 bytes in all.                                    *)

\* the handler that has just run packed a packet of valid width with a payload
\* of at most 255 bytes
Packed(o, evs) ==
    /\ o.name = "packSSGSCP"
    /\ evs[1].result # NULL
    /\ Len(evs[1].args.packet.payload) <= 255

CeilDiv(a, b) == (a + b - 1) \div b

C15_PackedLength ==
    Packed(op, events) =>
        Len(events[1].result) =
            18 + CeilDiv(8 + Len(events[1].args.packet.payload), 4) * 4

\* what the code returns: the padding is never empty, a plaintext whose length
\* is a multiple of 4 already gets 4 more bytes
C15_PackedLengthOfCode ==
    Packed(op, events) =>
        LET length == Len(events[1].args.packet.payload)
        IN /\ Len(events[1].result) = 18 + ((8 + length) \div 4 + 1) * 4
           /\ length = 0 => Len(events[1].result) = 30

---------------------------------------------------------------------------
(* C16: for every packet with packetType in 0..255, a 4-byte gatewayUID,   *)
(* packetID in 0..65535 and a payload of 0..255 bytes, and every key,      *)
(* parsing what packSSGSCP returned under the same key gives               *)
(* authSuccess = true and the same packetType, gatewayUID, packetID and    *)
(* payload, the payload without the padding.                               *)

ValidWidth(packet) ==
    /\ packet.packetType \in 0..255
    /\ Len(packet.gatewayUID) = 4
    /\ packet.packetID \in 0..65535
    /\ Len(packet.payload) \in 0..255

\* the step parses, under the key it was packed with, what the pack before it
\* returned
ParsesThePacked ==
    /\ op.name = "packSSGSCP"
    /\ op'.name = "parseSSGSCP"
    /\ events'[1].args.datagram = events[1].result
    /\ events'[1].args.key = events[1].args.key

C16_RoundTrip ==
    [][(ParsesThePacked /\ ValidWidth(events[1].args.packet)) =>
            LET packet == events[1].args.packet
                parsedPacket == events'[1].result
            IN /\ DOMAIN parsedPacket = {"parsed", "authSuccess", "packetType",
                                         "gatewayUID", "packetID", "payload"}
               /\ parsedPacket.parsed
               /\ parsedPacket.authSuccess
               /\ parsedPacket.packetType = packet.packetType
               /\ parsedPacket.gatewayUID = packet.gatewayUID
               /\ parsedPacket.packetID = packet.packetID
               /\ parsedPacket.payload = packet.payload
      ]_vars

\* the largest packet of the claim was packed and parsed back: type 255,
\* packetID 65535, 255 payload bytes and one byte of padding
C16_Witness ==
    /\ op.name = "parseSSGSCP"
    /\ Len(events[1].args.datagram) = 18 + 264
    /\ LET parsedPacket == events[1].result
       IN /\ parsedPacket.authSuccess
          /\ parsedPacket.packetType = 255
          /\ parsedPacket.packetID = 65535
          /\ parsedPacket.payload = CodecPayload(255)
          /\ events[1].args.datagram =
                packSSGSCP(Packet(255, UID_A, 65535, CodecPayload(255)),
                           events[1].args.key, IV1)

---------------------------------------------------------------------------
(* C17: parseSSGSCP returns authSuccess = false, and no other field,       *)
(* exactly when the 4 bytes at offset 1 of the decrypted portion differ    *)
(* from {0,1,2,3}; so a packed datagram with any of the 4 tag bytes of its *)
(* encrypted portion changed always parses to authSuccess = false.         *)

\* the 4 bytes at offset 1 of the encrypted portion, decrypted under key
DecryptedTagUnder(datagram, key) ==
    Subarray(AesCtr(key, Subarray(datagram, 6, 14) \o Zeros(8),
                    Subarray(datagram, 18, 18 + 5)),
             1, 5)

\* datagram is packedPacket with bytes changed at offsets 1..4 of the encrypted
\* portion and nowhere else
TagChanged(datagram, packedPacket) ==
    /\ Len(datagram) = Len(packedPacket)
    /\ datagram # packedPacket
    /\ \A k \in 0..(Len(datagram) - 1) :
        At(datagram, k) # At(packedPacket, k) => k \in (18 + 1)..(18 + 4)

AuthFailure == [parsed |-> TRUE, authSuccess |-> FALSE]

C17_AuthFailsExactlyOnTag ==
    /\ [](  (op.name = "parseSSGSCP" /\ WellFormed(events[1].args.datagram)) =>
            LET datagram == events[1].args.datagram
                key == events[1].args.key
                parsedPacket == events[1].result
            IN /\ DecryptedTagUnder(datagram, key) # AUTH_CODE =>
                    parsedPacket = AuthFailure
               /\ DecryptedTagUnder(datagram, key) = AUTH_CODE =>
                    /\ parsedPacket.authSuccess
                    /\ parsedPacket # AuthFailure  )
    /\ [][(/\ op.name = "packSSGSCP"
           /\ op'.name = "parseSSGSCP"
           /\ events'[1].args.key = events[1].args.key
           /\ TagChanged(events'[1].args.datagram, events[1].result)) =>
                events'[1].result = AuthFailure
         ]_vars

\* the last tag byte of a packed MSGSTATUS, changed in its top bit, parsed under
\* the key it was packed with
C17_Witness ==
    /\ op.name = "parseSSGSCP"
    /\ events[1].args.key = KEY_A
    /\ events[1].args.datagram =
            XorAt(packSSGSCP(Packet(MSGSTATUS, UID_A, 258, CodecPayload(3)),
                             KEY_A, IV1),
                  18 + 4, 128)
    /\ events[1].result = AuthFailure

---------------------------------------------------------------------------
(* C18: an authenticated packet of any type other than CONN, from an       *)
(* authorized UID that has no client, is answered with exactly one         *)
(* CONNFAIL sent to the datagram's source, and no client is created.       *)

IsNonConnFromUnconnected(clients, datagram) ==
    /\ Genuine(datagram)
    /\ Fields(datagram).packetType # CONN
    /\ ClientsOf(clients, Subarray(datagram, 14, 18)) = {}

C18_NoClientNonConnConnfail ==
    [][(Processed(op') /\ IsNonConnFromUnconnected(connectedClients, op'.datagram)) =>
            /\ OneConnfail(events', op'.datagram, op'.rinfo)
            /\ NoCallbacks(events')
            /\ connectedClients' = connectedClients
            /\ timers' = timers
      ]_vars

\* a MSGSTATUS of gateway A was answered with a CONNFAIL while gateway B is
\* connected and A is not
C18_Witness ==
    /\ op.name = "process"
    /\ IsNonConnFromUnconnected(connectedClients, op.datagram)
    /\ Fields(op.datagram).packetType = MSGSTATUS
    /\ OneConnfail(events, op.datagram, op.rinfo)
    /\ Calls(events, "onmessage") = <<>>
    /\ ClientsOf(connectedClients, UID_B) # {}

---------------------------------------------------------------------------
(* C19: a datagram shorter than 26 bytes, or one that does not start with  *)
(* the magic "SSGSCP", is dropped silently: parsePacketGatewayUID and      *)
(* parseSSGSCP return null for it, process sends no datagram (no           *)
(* CONNFAIL), calls nothing and changes no state.                          *)

Malformed(datagram) ==
    Len(datagram) < 26 \/ SubSeq(datagram, 1, 6) # PACKET_IDENTIFIER

C19_MalformedDroppedSilently ==
    [][(Processed(op') /\ Malformed(op'.datagram)) =>
            /\ parsePacketGatewayUID(op'.datagram) = NULL
            /\ \A key \in {KEY_A, KEY_B, ZERO_KEY} :
                    parseSSGSCP(op'.datagram, key) = Unparsed
            /\ events' = <<>>
            /\ connectedClients' = connectedClients
            /\ timers' = timers
            /\ now' = now
      ]_vars

\* the first 25 bytes of a MSGSTATUS of gateway A were dropped while A is
\* connected, has a message pending and was last seen before now
C19_Witness ==
    /\ op.name = "process"
    /\ Len(op.datagram) = 25
    /\ SubSeq(op.datagram, 1, 6) = PACKET_IDENTIFIER
    /\ events = <<>>
    /\ \E i \in ClientsOf(connectedClients, Subarray(op.datagram, 14, 18)) :
        /\ connectedClients[i].lastSeen < now
        /\ connectedClients[i].sentMessages # <<>>

\* the same for a datagram of full length whose first byte is not 'S'
C19_WitnessMagic ==
    /\ op.name = "process"
    /\ Len(op.datagram) >= 26
    /\ Malformed(op.datagram)
    /\ events = <<>>
    /\ ClientsOf(connectedClients, Subarray(op.datagram, 14, 18)) # {}

---------------------------------------------------------------------------
(* C20: if packSSGSCP returns null inside sendMSG, sendMSG sends no        *)
(* datagram, adds nothing to sentMessages and leaves sendPacketID          *)
(* unchanged.                                                              *)

\* the handler that has just run is a sendMSG whose packet packSSGSCP rejects
PackFailsInSend(o, clients) ==
    /\ o.name = "sendMSG"
    /\ packSSGSCP(Packet(o.packetType, clients[o.client].gatewayUID,
                         clients[o.client].sendPacketID, o.payload),
                  clients[o.client].key, IV1) = NULL

C20_PackFailureSendsNothing ==
    [][PackFailsInSend(op', connectedClients) =>
            /\ Sends(events') = <<>>
            /\ connectedClients'[op'.client].sentMessages =
                    connectedClients[op'.client].sentMessages
            /\ connectedClients'[op'.client].sendPacketID =
                    connectedClients[op'.client].sendPacketID
            /\ connectedClients' = connectedClients
      ]_vars

\* a sendMSG with packet type 256 did nothing, after one message was sent to
\* that client
C20_Witness ==
    /\ op.name = "sendMSG"
    /\ op.packetType = 256
    /\ PackFailsInSend(op, connectedClients)
    /\ events = <<>>
    /\ connectedClients[op.client].sendPacketID = 1
    /\ Len(connectedClients[op.client].sentMessages) = 1

---------------------------------------------------------------------------
(* C21: every retransmission of a sentMessages entry sends exactly the     *)
(* bytes that were packed when the message was first sent, IV and          *)
(* ciphertext included; a tick never packs an entry again and never        *)
(* changes an entry's packet bytes or packetID.                            *)

\* the packetIDs of a queue, in queue order
PacketIDs(sentMessages) ==
    [k \in 1..Len(sentMessages) |-> sentMessages[k].packetID]

\* the packet bytes of a queue, in queue order
Packets(sentMessages) ==
    [k \in 1..Len(sentMessages) |-> sentMessages[k].packet]

C21_RetransmitsOriginalBytes ==
    [][/\ \A i \in 1..Len(connectedClients) :
            \* what send() stores is what it has just sent
            /\ Accepted(i) =>
                LET stored == connectedClients'[i].sentMessages[
                                    Len(connectedClients'[i].sentMessages)]
                IN /\ Sends(events') = <<SendEv(stored.packet,
                                                connectedClients[i].sourcePort,
                                                connectedClients[i].remoteAddress)>>
                   /\ stored.packetID = connectedClients[i].sendPacketID
                   /\ parseSSGSCP(stored.packet, connectedClients[i].key).packetID
                        = stored.packetID
            \* no step changes the bytes of an entry that stays in the queue
            /\ \A k \in 1..Len(connectedClients[i].sentMessages) :
                \A j \in PendingAt(connectedClients', i,
                                   connectedClients[i].sentMessages[k].packetID) :
                    connectedClients'[i].sentMessages[j].packet
                        = connectedClients[i].sentMessages[k].packet
       /\ op'.name = "tick" =>
            /\ Len(connectedClients') = Len(connectedClients)
            /\ \A i \in 1..Len(connectedClients) :
                /\ PacketIDs(connectedClients'[i].sentMessages)
                    = PacketIDs(connectedClients[i].sentMessages)
                /\ Packets(connectedClients'[i].sentMessages)
                    = Packets(connectedClients[i].sentMessages)
            /\ \A n \in 1..Len(events') :
                /\ events'[n].ev = "send"
                /\ \E i \in 1..Len(connectedClients) :
                    \E k \in 1..Len(connectedClients[i].sentMessages) :
                        events'[n].packet = connectedClients[i].sentMessages[k].packet
      ]_vars

\* the tick at 4400 ms sends, for the third time, the bytes that went out at
\* time 0
C21_Witness ==
    /\ op.name = "tick"
    /\ now = 4400
    /\ FirstMessageUnacknowledged
    /\ Sends(events) = <<SendEv(TimeClient.sentMessages[1].packet, EP1.port, EP1.address)>>
    /\ connectedClients[1].sentMessages[1].packet = TimeClient.sentMessages[1].packet
    /\ connectedClients[1].sentMessages[1].timestamp = 4400

---------------------------------------------------------------------------
(* C22: in one tick, for each client, the entries sent again are exactly   *)
(* the first min(10, d) in queue order of the d entries with               *)
(* now - timestamp > retransmissionTimeout (strictly greater); each of     *)
(* them gets timestamp = now, and the tick changes nothing else: the       *)
(* members of the queue and their order, sendPacketID, the FIFO and the    *)
(* endpoint stay as they were.                                             *)

\* the first 10, in queue order, of the overdue positions of client i at t
FirstOverdue(clients, i, t) ==
    {k \in OverdueAt(clients, i, t) :
        Cardinality({j \in OverdueAt(clients, i, t) : j < k}) < 10}

\* the n-th smallest member of a set of positions
NthOf(positions, n) ==
    CHOOSE k \in positions : Cardinality({j \in positions : j < k}) = n - 1

Min(a, b) == IF a < b THEN a ELSE b

C22_WitnessCapped ==
    /\ op.name = "tick"
    /\ now = 2200
    /\ Len(SendsFor(events, UID_A)) = 10
    /\ Cardinality(OverdueAt(connectedClients, 1, now)) = 2
    /\ SendsFor(events, UID_B) = <<>>
    /\ Len(connectedClients[2].sentMessages) = 3

---------------------------------------------------------------------------
(* C23: when process handles an authenticated MSGSTATUS of a connected     *)
(* client whose packetID is not in receivedMessageIDsFIFO, it appends the  *)
(* packetID to the FIFO, dropping the head if the length exceeds 100, then *)
(* sends exactly one RCPTOK with that packetID, then calls onmessage       *)
(* exactly once: the RCPTOK goes out before onmessage runs.                *)

\* the handler that has just run was given a genuine MSGSTATUS of client i with
\* a packetID that is not in the client's FIFO
ProcessedNewStatus(o, clients, i) ==
    /\ ProcessedFrom(o, clients, i, MSGSTATUS)
    /\ ~Includes(clients[i].receivedMessageIDsFIFO, Fields(o.datagram).packetID)

C23_NewStatusFifoRcptokOnmessage ==
    [][\A i \in 1..Len(connectedClients) :
        ProcessedNewStatus(op', connectedClients, i) =>
            LET fifo == connectedClients[i].receivedMessageIDsFIFO
                packetID == Fields(op'.datagram).packetID
            IN /\ connectedClients'[i].receivedMessageIDsFIFO =
                    (IF Len(fifo) + 1 > 100 THEN Tail(fifo) ELSE fifo) \o <<packetID>>
               /\ OneRcptok(events', op'.datagram, op'.rinfo)
               /\ Calls(events', "onmessage") =
                    <<CallEv("onmessage", connectedClients[i].gatewayUID,
                             Fields(op'.datagram).payload)>>
               /\ PositionOf(events', "send") < PositionOf(events', "onmessage")
               /\ \A n \in 1..Len(events') :
                    events'[n].ev \in {"decipher", "send", "onmessage"}
      ]_vars

\* a new MSGSTATUS was delivered while the FIFO held 100 packetIDs: the oldest
\* one is gone and the new one is last
C23_Witness ==
    /\ op.name = "process"
    /\ Genuine(op.datagram)
    /\ Fields(op.datagram).packetType = MSGSTATUS
    /\ Len(connectedClients[1].receivedMessageIDsFIFO) = 100
    /\ connectedClients[1].receivedMessageIDsFIFO[1] = 1
    /\ connectedClients[1].receivedMessageIDsFIFO[100] = Fields(op.datagram).packetID
    /\ OneRcptok(events, op.datagram, op.rinfo)
    /\ Len(Calls(events, "onmessage")) = 1
    /\ PositionOf(events, "send") < PositionOf(events, "onmessage")

---------------------------------------------------------------------------
(* C24: in every reachable state a client's receivedMessageIDsFIFO holds,  *)
(* in arrival order and without duplicates, exactly the packetIDs of the   *)
(* most recent min(100, n) MSGSTATUS packets delivered to onmessage since  *)
(* the client's last CONN, n being the number delivered since then.        *)
(*                                                                         *)
(* Stated step by step: a client starts with an empty FIFO; a CONN of the  *)
(* client empties it and delivers nothing; a step that delivers a          *)
(* MSGSTATUS to onmessage delivers one, and the FIFO after it is the last  *)
(* 100 of the FIFO before it followed by the packetID delivered; no other  *)
(* step changes the FIFO; and the FIFO never holds a packetID twice.       *)

LastN(seq, n) == SubSeq(seq, IF Len(seq) > n THEN Len(seq) - n + 1 ELSE 1, Len(seq))

NoDuplicates(seq) == Cardinality({seq[k] : k \in 1..Len(seq)}) = Len(seq)

\* the onmessage calls of the handler that carry this UID
DeliveredFor(evs, gatewayUID) ==
    SelectSeq(evs, LAMBDA e : e.ev = "onmessage" /\ e.gatewayUID = gatewayUID)

C24_FifoIsLastDelivered ==
    /\ [](\A i \in 1..Len(connectedClients) :
            /\ NoDuplicates(connectedClients[i].receivedMessageIDsFIFO)
            /\ Len(connectedClients[i].receivedMessageIDsFIFO) <= 100)
    /\ [][/\ \A i \in 1..Len(connectedClients) :
                LET fifo == connectedClients[i].receivedMessageIDsFIFO
                    delivered == DeliveredFor(events', connectedClients[i].gatewayUID)
                IN IF ProcessedFrom(op', connectedClients, i, CONN)
                   THEN /\ connectedClients'[i].receivedMessageIDsFIFO = <<>>
                        /\ delivered = <<>>
                   ELSE IF delivered # <<>>
                   THEN /\ Len(delivered) = 1
                        /\ ProcessedFrom(op', connectedClients, i, MSGSTATUS)
                        /\ delivered[1].payload = Fields(op'.datagram).payload
                        /\ connectedClients'[i].receivedMessageIDsFIFO =
                                LastN(fifo \o <<Fields(op'.datagram).packetID>>, 100)
                   ELSE connectedClients'[i].receivedMessageIDsFIFO = fifo
          /\ \A i \in (Len(connectedClients) + 1)..Len(connectedClients') :
                /\ connectedClients'[i].receivedMessageIDsFIFO = <<>>
                /\ DeliveredFor(events', connectedClients'[i].gatewayUID) = <<>>
         ]_vars

\* 101 status messages were delivered since the CONN: the FIFO holds the last
\* 100 of them in order
C24_Witness ==
    /\ connectedClients[1].receivedMessageIDsFIFO = [k \in 1..100 |-> k]
    /\ DeliveredFor(events, UID_A) # <<>>

\* the FIFO after a CONN emptied it and one status message was delivered
C24_WitnessAfterConn ==
    /\ \E i \in 1..Len(connectedClients) :
        /\ connectedClients[i].receivedMessageIDsFIFO = <<7>>
        /\ connectedClients[i].sendPacketID = 0
        /\ timers # <<>>
        /\ DeliveredFor(events, connectedClients[i].gatewayUID) # <<>>

---------------------------------------------------------------------------
(* C25: an entry leaves a client's sentMessages in one of three ways only: *)
(* an RCPTOK with the entry's packetID is processed, the entry is the head *)
(* and a send() makes the queue exceed 100, or an authenticated CONN of    *)
(* the client resets the queue; ticks and packets of every other type      *)
(* never remove an entry.                                                  *)

C25_EntriesLeaveInThreeWays ==
    [][\A i \in 1..Len(connectedClients) :
        LET before == PacketIDs(connectedClients[i].sentMessages)
            after == PacketIDs(connectedClients'[i].sentMessages)
        IN \* no entry leaves
           \/ after = before
           \/ /\ Accepted(i)
              /\ after = before \o <<connectedClients[i].sendPacketID>>
           \* the head leaves
           \/ /\ Accepted(i)
              /\ Len(before) = 100
              /\ after = Tail(before) \o <<connectedClients[i].sendPacketID>>
           \* all leave
           \/ /\ ProcessedFrom(op', connectedClients, i, CONN)
              /\ after = <<>>
           \* the acknowledged entry leaves
           \/ /\ ProcessedFrom(op', connectedClients, i, RCPTOK)
              /\ \E packetID \in {Fields(op'.datagram).packetID} :
                    \E k \in 1..Len(before) :
                        /\ before[k] = packetID
                        /\ after = Splice(before, k)
      ]_vars

\* a send() has pushed the oldest of 100 entries out of the queue: no datagram
\* of the gateway was processed since the queue was filled
C25_Witness ==
    /\ op.name = "send"
    /\ connectedClients[1].lastSeen = 0
    /\ Len(connectedClients[1].sentMessages) = 100
    /\ PendingAt(connectedClients, 1, DeepFirstID) = {}
    /\ connectedClients[1].sentMessages[1].packetID = DeepFirstID + 1

\* a tick has sent ten entries of a queue of 99 or more again and removed none
C25_WitnessTick ==
    /\ op.name = "tick"
    /\ Len(events) = 10
    /\ Len(connectedClients[1].sentMessages) >= 99

---------------------------------------------------------------------------
(* C26: processing an authenticated RCPTOK of a connected client removes   *)
(* exactly one sentMessages entry, the first in queue order with that      *)
(* packetID, when there is one, and removes nothing when there is none; in *)
(* both cases no datagram is sent, no callback is called, and              *)
(* sendPacketID, receivedMessageIDsFIFO, the endpoint and the relative     *)
(* order of the remaining entries are unchanged.                           *)

\* sentMessages without the first entry that has this packetID
WithoutFirst(sentMessages, packetID) ==
    LET matching == {k \in 1..Len(sentMessages) : sentMessages[k].packetID = packetID}
    IN IF matching = {} THEN sentMessages
       ELSE Splice(sentMessages, NthOf(matching, 1))

C26_RcptokRemovesOneEntry ==
    [][\A i \in 1..Len(connectedClients) :
        ProcessedFrom(op', connectedClients, i, RCPTOK) =>
            /\ \E packetID \in {Fields(op'.datagram).packetID} :
                connectedClients' =
                    [connectedClients EXCEPT ![i] =
                        [connectedClients[i] EXCEPT
                            !.lastSeen = now,
                            !.sentMessages =
                                WithoutFirst(connectedClients[i].sentMessages, packetID)]]
            /\ Sends(events') = <<>>
            /\ NoCallbacks(events')
            /\ timers' = timers
      ]_vars

\* the RCPTOK for the newest of 100 pending messages was processed: the other
\* 99 are left, the oldest first
C26_Witness ==
    /\ op.name = "process"
    /\ Genuine(op.datagram)
    /\ Fields(op.datagram).packetType = RCPTOK
    /\ Fields(op.datagram).packetID = (DeepFirstID + 100) % 65536
    /\ PendingAt(connectedClients, 1, Fields(op.datagram).packetID) = {}
    /\ Len(connectedClients[1].sentMessages) = 99
    /\ connectedClients[1].sentMessages[1].packetID = DeepFirstID + 1
    /\ connectedClients[1].sentMessages[99].packetID = (DeepFirstID + 99) % 65536
    /\ Sends(events) = <<>>

\* an RCPTOK that names no pending message was processed: nothing was removed
C26_WitnessNoMatch ==
    /\ op.name = "process"
    /\ Genuine(op.datagram)
    /\ Fields(op.datagram).packetType = RCPTOK
    /\ Fields(op.datagram).packetID = 7
    /\ Len(connectedClients[1].sentMessages) = 100
    /\ connectedClients[1].lastSeen = now
    /\ events = <<CallEv("decipher", UID_A, NULL)>>

---------------------------------------------------------------------------
(* C27: an authenticated MSGCONF, CONNACPT or CONNFAIL from a connected    *)
(* client is dropped: no datagram is sent, no callback is called, and the  *)
(* client's sendPacketID, sentMessages, receivedMessageIDsFIFO and         *)
(* endpoint are unchanged; only lastSeen is updated.                       *)

\* the client table with lastSeen of client i set to t and nothing else changed
WithLastSeen(clients, i, t) ==
    [clients EXCEPT ![i] = [clients[i] EXCEPT !.lastSeen = t]]

C27_OutboundTypesDropped ==
    [][\A i \in 1..Len(connectedClients) :
        (\E packetType \in {MSGCONF, CONNACPT, CONNFAIL} :
            ProcessedFrom(op', connectedClients, i, packetType)) =>
                /\ connectedClients' = WithLastSeen(connectedClients, i, now)
                /\ Sends(events') = <<>>
                /\ NoCallbacks(events')
                /\ timers' = timers
      ]_vars

\* a MSGCONF of gateway A was dropped while A has a message pending and was
\* last seen earlier
C27_Witness ==
    /\ op.name = "process"
    /\ Genuine(op.datagram)
    /\ Fields(op.datagram).packetType = MSGCONF
    /\ events = <<CallEv("decipher", UID_A, NULL)>>
    /\ now > 0
    /\ \E i \in ClientsOf(connectedClients, UID_A) :
        /\ connectedClients[i].lastSeen = now
        /\ connectedClients[i].sentMessages # <<>>

---------------------------------------------------------------------------
(* C28: an authenticated packet of a connected client whose packetType is  *)
(* none of 1, 2, 3, 10, 20, 21 is reported as an assertion failure and     *)
(* does not stop the server: no datagram is sent, the client's             *)
(* sendPacketID, queues and endpoint are unchanged, and later datagrams    *)
(* are still processed.                                                    *)

ProcessedUnknownType(o, clients, i) ==
    /\ Processed(o)
    /\ Genuine(o.datagram)
    /\ Fields(o.datagram).packetType \notin {1, 2, 3, 10, 20, 21}
    /\ Fields(o.datagram).gatewayUID = clients[i].gatewayUID

AssertionReported(evs) ==
    /\ Len(Calls(evs, "assert")) = 1
    /\ \A n \in 1..Len(evs) : evs[n].ev \in {"decipher", "assert"}

C28_UnknownTypeAssertsAndGoesOn ==
    [][\A i \in 1..Len(connectedClients) :
        /\ ProcessedUnknownType(op', connectedClients, i) =>
                /\ AssertionReported(events')
                /\ Sends(events') = <<>>
                /\ connectedClients' = WithLastSeen(connectedClients, i, now)
                /\ timers' = timers
        \* the handler after such a packet: the server is running, the step is the
        \* start of a handler or the return to the loop, and a datagram that is
        \* processed next is processed as ever
        /\ (op.name = "process" /\ ProcessedUnknownType(op, connectedClients, i)) =>
                /\ op'.name \in {"idle", "redeliver"}
                /\ op'.name = "redeliver" =>
                    /\ AssertionReported(events')
                    /\ connectedClients' = WithLastSeen(connectedClients, i, now)
      ]_vars

\* a packet of type 99 of gateway A, connected and with a message pending, was
\* processed a second time
C28_Witness ==
    /\ op.name = "redeliver"
    /\ Genuine(op.datagram)
    /\ Fields(op.datagram).packetType = 99
    /\ AssertionReported(events)
    /\ \E i \in ClientsOf(connectedClients, UID_A) :
        /\ connectedClients[i].lastSeen = now
        /\ connectedClients[i].sentMessages # <<>>

---------------------------------------------------------------------------
(* C29: a client is added to the connected set only by processing an       *)
(* authenticated CONN from an authorized UID that has no client, and no    *)
(* operation ever removes a client: the connected set only grows, and a    *)
(* UID that is connected stays connected in every later state.             *)

\* the gatewayUIDs of the connected set, in the order of connectedClients
GatewayUIDs(clients) == [i \in 1..Len(clients) |-> clients[i].gatewayUID]

C29_ConnectedSetOnlyGrows ==
    [][/\ Len(connectedClients') >= Len(connectedClients)
       /\ SubSeq(GatewayUIDs(connectedClients'), 1, Len(connectedClients))
            = GatewayUIDs(connectedClients)
       /\ \A gatewayUID \in {UID_A, UID_B, UID_X, UID_Y} :
            ClientsOf(connectedClients, gatewayUID) # {} =>
                ClientsOf(connectedClients', gatewayUID) # {}
       /\ Len(connectedClients') # Len(connectedClients) =>
            /\ Len(connectedClients') = Len(connectedClients) + 1
            /\ Processed(op')
            /\ IsConnFromUnconnected(connectedClients, op'.datagram)
            /\ InTable(Fields(op'.datagram).gatewayUID)
            /\ connectedClients'[Len(connectedClients')].gatewayUID
                = Fields(op'.datagram).gatewayUID
      ]_vars

\* gateway A has sent a CONNFAIL of its own, after a reconnect and with B
\* connected too: both clients are still there
C29_Witness ==
    /\ op.name = "process"
    /\ Genuine(op.datagram)
    /\ Fields(op.datagram).packetType = CONNFAIL
    /\ Fields(op.datagram).gatewayUID = UID_A
    /\ timers # <<>>
    /\ Len(connectedClients) = 2
    /\ ClientsOf(connectedClients, UID_A) # {}
    /\ ClientsOf(connectedClients, UID_B) # {}

---------------------------------------------------------------------------
(* C30: a client's remoteAddress and sourcePort change only when an        *)
(* authenticated CONN of its UID is processed; MSGSTATUS, RCPTOK and any   *)
(* other packet that arrives from another source endpoint, send() and      *)
(* ticks leave them unchanged.                                             *)

\* the handler that has just run was given a genuine packet of client i, not a
\* CONN, from an endpoint that is not the client's
ProcessedFromElsewhere(o, clients, i) ==
    /\ Processed(o)
    /\ Genuine(o.datagram)
    /\ Fields(o.datagram).gatewayUID = clients[i].gatewayUID
    /\ Fields(o.datagram).packetType # CONN
    /\ o.rinfo # Endpoint(clients[i])

C30_EndpointChangesOnlyOnConn ==
    [][\A i \in 1..Len(connectedClients) :
        /\ Endpoint(connectedClients'[i]) # Endpoint(connectedClients[i]) =>
                /\ ProcessedFrom(op', connectedClients, i, CONN)
                /\ Endpoint(connectedClients'[i]) = op'.rinfo
        /\ ProcessedFromElsewhere(op', connectedClients, i) =>
                Endpoint(connectedClients'[i]) = Endpoint(connectedClients[i])
        /\ op'.name \in {"send", "tick", "onreconnect"} =>
                Endpoint(connectedClients'[i]) = Endpoint(connectedClients[i])
      ]_vars

\* an RCPTOK that came from another port has removed the pending message of
\* gateway A; the client still has the endpoint of the CONN
C30_Witness ==
    /\ op.name = "process"
    /\ Genuine(op.datagram)
    /\ Fields(op.datagram).packetType = RCPTOK
    /\ op.rinfo = EP2
    /\ \E i \in ClientsOf(connectedClients, UID_A) :
        /\ Endpoint(connectedClients[i]) = EP1
        /\ connectedClients[i].sendPacketID = 1
        /\ connectedClients[i].sentMessages = <<>>
        /\ connectedClients[i].lastSeen = now

---------------------------------------------------------------------------
(* C31: when the UDP send of a send() fails, the message is in             *)
(* sentMessages all the same and sendPacketID has advanced: the failure    *)
(* changes nothing of the client, and fair ticks retransmit the message    *)
(* as long as it is pending, like a message whose send succeeded.          *)

\* the callback that has just run was told that the send to client i of the
\* message with this packetID failed
SendFailed(o, evs, i, packetID) ==
    /\ o.name = "sendCallback"
    /\ o.client = i
    /\ evs[1].payload # NULL
    /\ Fields(evs[1].packet).packetID = packetID

\* as BeforeHorizon, for the last tick of SpecSendError
BeforeSendErrorEnd(i, packetID) ==
    \A k \in PendingAt(connectedClients, i, packetID) :
        connectedClients[i].sentMessages[k].timestamp
            + RETRANSMISSION_TIMEOUT_MS + TICK_INTERVAL_MS <= SendErrorEnd

C31_FailedSendStaysQueued ==
    /\ [][\A packetID \in 0..(SendErrorMaxSends - 1) :
            SendFailed(op', events', 1, packetID) =>
                LET client == connectedClients'[1]
                    sentMessages == client.sentMessages
                IN /\ connectedClients' = connectedClients
                   /\ sentMessages # <<>>
                   /\ sentMessages[Len(sentMessages)].packetID = packetID
                   /\ sentMessages[Len(sentMessages)].packet = events'[1].packet
                   /\ client.sendPacketID = NextPacketID(packetID)
         ]_vars
    /\ \A packetID \in 0..(SendErrorMaxSends - 1) :
        (SendFailed(op, events, 1, packetID) /\ BeforeSendErrorEnd(1, packetID))
            ~> (Retransmitted(1, packetID) \/ ~IsPending(1, packetID))

\* the message whose send failed at time 0 is retransmitted by the tick at 2200 ms
C31_WitnessRetried ==
    /\ Retransmitted(1, 0)
    /\ now = RETRANSMISSION_TIMEOUT_MS + TICK_INTERVAL_MS
    /\ connectedClients[1].lastSeen = 0
    /\ connectedClients[1].sendPacketID = 1

\* the callback has just been told of the failure; the message is pending
C31_Witness ==
    /\ SendFailed(op, events, 1, 0)
    /\ IsPending(1, 0)
    /\ connectedClients[1].sendPacketID = 1

---------------------------------------------------------------------------
(* C32: a send() to a client whose sentMessages holds 100 entries leaves   *)
(* the previous queue without its head, followed by the new message; the   *)
(* discarded message is the oldest, never the new one, and no later tick   *)
(* retransmits it.                                                         *)

\* the tick that has just run sent this datagram
TickSent(packet) ==
    /\ op.name = "tick"
    /\ \E n \in 1..Len(events) : events[n].packet = packet

\* no entry of client i holds this datagram
NotQueued(i, packet) ==
    \A k \in 1..Len(connectedClients[i].sentMessages) :
        connectedClients[i].sentMessages[k].packet # packet

C32_FullQueueDropsOldest ==
    /\ [][(Accepted(1) /\ Len(connectedClients[1].sentMessages) = SENT_MSG_LIST_MAX_LEN) =>
            LET client == connectedClients[1]
                head == client.sentMessages[1]
                sentMessage == [packetID |-> client.sendPacketID, timestamp |-> now,
                                packet |-> events'[1].packet]
            IN /\ connectedClients'[1].sentMessages =
                    Append(Tail(client.sentMessages), sentMessage)
               /\ Fields(sentMessage.packet).packetID = client.sendPacketID
               /\ Fields(sentMessage.packet).payload = op'.payload
               /\ \A k \in 1..Len(connectedClients'[1].sentMessages) :
                    /\ connectedClients'[1].sentMessages[k].packetID # head.packetID
                    /\ connectedClients'[1].sentMessages[k].packet # head.packet
         ]_vars
    /\ [][op'.name = "tick" =>
            \A n \in 1..Len(events') :
                \E k \in 1..Len(connectedClients[1].sentMessages) :
                    events'[n].packet = connectedClients[1].sentMessages[k].packet
         ]_vars
    /\ \A k \in 1..EvictMaxSends :
        [](NotQueued(1, DeepSentMessage(k).packet) =>
            [](~TickSent(DeepSentMessage(k).packet)))

\* the send to the full queue has just run: the queue holds 100 messages, the
\* second of the old queue is its head and the new message (packetID 0, after the
\* wrap) its tail
C32_Witness ==
    /\ op.name = "send"
    /\ Len(connectedClients[1].sentMessages) = SENT_MSG_LIST_MAX_LEN
    /\ connectedClients[1].sentMessages[1] = DeepSentMessage(2)
    /\ connectedClients[1].sentMessages[SENT_MSG_LIST_MAX_LEN].packetID = 0
    /\ connectedClients[1].sentMessages[SENT_MSG_LIST_MAX_LEN].packet = events[1].packet
    /\ NotQueued(1, DeepSentMessage(1).packet)

\* an RCPTOK for the discarded message has arrived after the eviction
C32_WitnessLateRcptok ==
    /\ op.name = "process"
    /\ Fields(op.datagram).packetID = DeepFirstID
    /\ Len(connectedClients[1].sentMessages) = SENT_MSG_LIST_MAX_LEN
    /\ connectedClients[1].sentMessages[1] = DeepSentMessage(2)

\* a tick after the eviction retransmits from the new head on
C32_WitnessTick ==
    /\ op.name = "tick"
    /\ Len(connectedClients[1].sentMessages) = SENT_MSG_LIST_MAX_LEN
    /\ connectedClients[1].sentMessages[1].packetID = DeepFirstID + 1
    /\ events # <<>>
    /\ events[1].packet = DeepSentMessage(2).packet
    /\ NotQueued(1, DeepSentMessage(1).packet)

---------------------------------------------------------------------------
(* C33: in every reachable state no two entries of a client's sentMessages *)
(* have the same packetID, so that an RCPTOK identifies at most one        *)
(* pending message, also after sendPacketID has wrapped around while an    *)
(* old entry is still pending.                                             *)

C33_PacketIDsUnique ==
    \A i \in 1..Len(connectedClients) :
        NoDuplicates(PacketIDs(connectedClients[i].sentMessages))

\* what the code keeps: the packetIDs of the entries sent since the wrap are
\* distinct, and an entry has the packetID of a later one only if it is the
\* message that was pending through all 65536 sends
C33_DuplicateOnlyOfOldEntry ==
    \A i \in 1..Len(connectedClients) :
        LET sentMessages == connectedClients[i].sentMessages
        IN \A j, k \in 1..Len(sentMessages) :
            (j < k /\ sentMessages[j].packetID = sentMessages[k].packetID) =>
                /\ j = 1
                /\ sentMessages[j].packet = WrapOldMessage.packet

\* two messages with packetID 0 were pending and an RCPTOK with packetID 0 has
\* been processed: it removed the old message and the new one is pending
C33_WitnessRcptokOfTwo ==
    /\ op.name = "process"
    /\ Genuine(op.datagram)
    /\ Fields(op.datagram).packetType = RCPTOK
    /\ Fields(op.datagram).packetID = 0
    /\ connectedClients[1].sendPacketID = 1
    /\ PacketIDs(connectedClients[1].sentMessages) = <<WrapFirstID, 0>>
    /\ NotQueued(1, WrapOldMessage.packet)

---------------------------------------------------------------------------
(* C34: an RCPTOK that the gateway produced for a message sent before a    *)
(* reconnect CONN and that is delivered after the CONN was processed       *)
(* removes no sentMessages entry created after the CONN.  (In SpecStale    *)
(* every RCPTOK delivered is such a one, and every entry is created after  *)
(* the CONN.)                                                              *)

C34_StaleRcptokRemovesNothing ==
    [][ProcessedFrom(op', connectedClients, 1, RCPTOK) =>
            connectedClients'[1].sentMessages = connectedClients[1].sentMessages
      ]_vars

\* the old RCPTOK has been processed with nothing pending: nothing is removed
C34_WitnessNothingPending ==
    /\ op.name = "process"
    /\ op.datagram = StaleRcptok
    /\ connectedClients[1].sendPacketID = 0
    /\ connectedClients[1].sentMessages = <<>>

\* the old RCPTOK has been processed after the first send since the CONN: the new
\* message, which the gateway never received, is pending no more
C34_WitnessNewMessageRemoved ==
    /\ op.name = "process"
    /\ op.datagram = StaleRcptok
    /\ connectedClients[1].sendPacketID = 1
    /\ connectedClients[1].sentMessages = <<>>

---------------------------------------------------------------------------
(* C35: every entry of a client's sentMessages was sent after the most     *)
(* recent CONN processed for the client, and every retransmission of an    *)
(* entry goes to the (address, port) of its first transmission; a message  *)
(* sent before a reconnect is never transmitted to the new endpoint.       *)
(* Step by step: a CONN leaves no entry; the endpoint changes in no other  *)
(* step; an entry enters only by a send(), which transmits it to the       *)
(* endpoint; a tick transmits entries of the queue only, to the endpoint.  *)

\* the entries of client i after the step that were not entries before it
EnteredBy(i) ==
    LET before == connectedClients[i].sentMessages
        after == connectedClients'[i].sentMessages
    IN {k \in 1..Len(after) :
            \A j \in 1..Len(before) : before[j].packetID # after[k].packetID}

\* while the onreconnect timeout of a CONN is pending, no entry is older than
\* the CONN
NoEntryOlderThanConn ==
    \A n \in 1..Len(timers) :
        \A k \in 1..Len(connectedClients[timers[n].client].sentMessages) :
            connectedClients[timers[n].client].sentMessages[k].timestamp
                >= timers[n].due - RETRANSMISSION_TIMEOUT_MS

C35_EntriesAreOfTheConnection ==
    /\ [](NoEntryOlderThanConn)
    /\ [][\A i \in 1..Len(connectedClients) :
            LET client == connectedClients[i]
                after == connectedClients'[i]
            IN /\ ProcessedFrom(op', connectedClients, i, CONN) =>
                    after.sentMessages = <<>>
               /\ Endpoint(after) # Endpoint(client) =>
                    /\ ProcessedFrom(op', connectedClients, i, CONN)
                    /\ after.sentMessages = <<>>
               /\ EnteredBy(i) # {} =>
                    /\ Accepted(i)
                    /\ EnteredBy(i) = {Len(after.sentMessages)}
                    /\ events' = <<SendEv(after.sentMessages[Len(after.sentMessages)].packet,
                                          client.sourcePort, client.remoteAddress)>>
                    /\ Endpoint(after) = Endpoint(client)
               /\ op'.name = "tick" =>
                    /\ Endpoint(after) = Endpoint(client)
                    /\ \A n \in 1..Len(events') :
                        \E k \in 1..Len(client.sentMessages) :
                            events'[n] = SendEv(client.sentMessages[k].packet,
                                                client.sourcePort, client.remoteAddress)
      ]_vars

\* a tick has retransmitted, to EP2, a message sent after the CONN from EP2
C35_Witness ==
    /\ op.name = "tick"
    /\ Endpoint(connectedClients[1]) = EP2
    /\ Len(events) = 1
    /\ events[1].port = EP2.port
    /\ connectedClients[1].sentMessages[1].timestamp = now
    /\ connectedClients[1].lastSeen > 0

\* the CONN from EP2 has been processed, some ticks after the reconnect from EP1
C35_WitnessReconnected ==
    /\ op.name = "process"
    /\ op.rinfo = EP2
    /\ Endpoint(connectedClients[1]) = EP2
    /\ connectedClients[1].sentMessages = <<>>
    /\ Len(timers) = 2
    /\ now > 0

---------------------------------------------------------------------------
(* C36: the cap of 10 retransmissions per tick starves no entry.  With a   *)
(* queue of up to 100 entries, all overdue, that no send(), CONN or RCPTOK *)
(* changes, and ticks that keep occurring: every entry is transmitted      *)
(* again at the latest by the tenth tick after its timeout has passed (its *)
(* age, seen between ticks, never exceeds the timeout plus 9 ticks), and   *)
(* after any time every entry is retransmitted again within 11 ticks.      *)

\* the ticks a full queue needs to be retransmitted once
TicksPerQueue == SENT_MSG_LIST_MAX_LEN \div MAX_RETRANSMISSIONS_PER_TICK

\* every entry of client i was transmitted after time t
AllTransmittedAfter(i, t) ==
    \A k \in 1..Len(connectedClients[i].sentMessages) :
        connectedClients[i].sentMessages[k].timestamp > t

\* no entry of client i was last transmitted more than maxAge ago
NoneOlderThan(i, maxAge) ==
    \A k \in 1..Len(connectedClients[i].sentMessages) :
        now - connectedClients[i].sentMessages[k].timestamp <= maxAge

C36_CapStarvesNoEntry ==
    /\ [](/\ Len(connectedClients[1].sentMessages) = SENT_MSG_LIST_MAX_LEN
          /\ NoneOlderThan(1, RETRANSMISSION_TIMEOUT_MS
                                + (TicksPerQueue - 1) * TICK_INTERVAL_MS))
    /\ [][op'.name = "tick" =>
            /\ Len(events') <= MAX_RETRANSMISSIONS_PER_TICK
            /\ Packets(connectedClients'[1].sentMessages)
                    = Packets(connectedClients[1].sentMessages)
            /\ \A k \in 1..Len(connectedClients[1].sentMessages) :
                connectedClients'[1].sentMessages[k].timestamp
                        # connectedClients[1].sentMessages[k].timestamp =>
                    /\ connectedClients'[1].sentMessages[k].timestamp = now'
                    /\ \E n \in 1..Len(events') :
                        events'[n] = SendEv(connectedClients[1].sentMessages[k].packet,
                                            EP1.port, EP1.address)
         ]_vars
    /\ <>(now = StarveEnd) =>
            \A n \in 0..StarveMaxTicks :
                (now = StarveStartTime + n * TICK_INTERVAL_MS
                    /\ now + (TicksPerQueue + 1) * TICK_INTERVAL_MS <= StarveEnd)
                  ~> AllTransmittedAfter(1, StarveStartTime + n * TICK_INTERVAL_MS)

\* the tick at 4000 ms has retransmitted the last ten of the 100 messages, 9 ticks
\* after they became overdue
C36_Witness ==
    /\ op.name = "tick"
    /\ now = RETRANSMISSION_TIMEOUT_MS + TicksPerQueue * TICK_INTERVAL_MS
    /\ Len(events) = MAX_RETRANSMISSIONS_PER_TICK
    /\ connectedClients[1].sentMessages[SENT_MSG_LIST_MAX_LEN].timestamp = now
    /\ connectedClients[1].sentMessages[SENT_MSG_LIST_MAX_LEN - 10].timestamp = now - TICK_INTERVAL_MS
    /\ events[MAX_RETRANSMISSIONS_PER_TICK].packet
            = connectedClients[1].sentMessages[SENT_MSG_LIST_MAX_LEN].packet

\* the tick at 6200 ms has retransmitted the last ten messages for the second time
C36_WitnessAgain ==
    /\ op.name = "tick"
    /\ now = 2 * RETRANSMISSION_TIMEOUT_MS + (TicksPerQueue + 1) * TICK_INTERVAL_MS
    /\ Len(events) = MAX_RETRANSMISSIONS_PER_TICK
    /\ connectedClients[1].sentMessages[SENT_MSG_LIST_MAX_LEN].timestamp = now

---------------------------------------------------------------------------
(* C37: after a MSGSTATUS with packetID p was delivered to onmessage, a    *)
(* further MSGSTATUS with packetID p of the same client is not delivered   *)
(* again, as long as no CONN of the client was processed and fewer than    *)
(* 100 MSGSTATUS with other new packetIDs were delivered in between.       *)
(* (In SpecDedup, while the FIFO holds consecutive packet IDs up to b and  *)
(* no CONN was processed, the packet IDs 0, 1, ..., b were delivered in    *)
(* this order and nothing else: p was delivered if p <= b, and b - p       *)
(* others were delivered after it.)                                        *)

\* no CONN has been processed, and the deliveries so far are 0, 1, ..., b
DeliveredUpTo(b) ==
    LET fifo == connectedClients[1].receivedMessageIDsFIFO
    IN /\ timers = <<>>
       /\ IsRun(fifo)
       /\ fifo[Len(fifo)] = b

C37_NoRedeliveryWithin100 ==
    [][\A packetID \in {Fields(op'.datagram).packetID :
                            x \in {y \in {1} : ProcessedFrom(op', connectedClients, 1,
                                                             MSGSTATUS)}} :
        \A b \in {connectedClients[1].receivedMessageIDsFIFO[k] :
                    k \in {Len(connectedClients[1].receivedMessageIDsFIFO)}
                            \cap DOMAIN connectedClients[1].receivedMessageIDsFIFO} :
            (DeliveredUpTo(b) /\ packetID <= b /\ b - packetID < RECV_MSG_FIFO_MAX_LEN) =>
                /\ Calls(events', "onmessage") = <<>>
                /\ connectedClients'[1].receivedMessageIDsFIFO
                        = connectedClients[1].receivedMessageIDsFIFO
      ]_vars

\* packetID 1 arrives again after 99 others (2..100) were delivered: it is
\* acknowledged and not delivered
C37_Witness ==
    /\ op.name = "process"
    /\ Fields(op.datagram).packetType = MSGSTATUS
    /\ Fields(op.datagram).packetID = 1
    /\ DeliveredUpTo(RECV_MSG_FIFO_MAX_LEN)
    /\ connectedClients[1].receivedMessageIDsFIFO[1] = 1
    /\ Calls(events, "onmessage") = <<>>
    /\ Len(Sends(events)) = 1

\* packetID 0 arrives again after 100 others (1..100) were delivered: it is
\* delivered a second time
C37_WitnessAfter100 ==
    /\ op.name = "process"
    /\ Fields(op.datagram).packetID = 0
    /\ timers = <<>>
    /\ Len(Calls(events, "onmessage")) = 1
    /\ connectedClients[1].receivedMessageIDsFIFO
            = [k \in 1..RECV_MSG_FIFO_MAX_LEN |->
                    IF k < RECV_MSG_FIFO_MAX_LEN THEN k + 1 ELSE 0]

\* packetID 0 arrives again after a CONN: it is delivered a second time
C37_WitnessAfterConn ==
    /\ op.name = "process"
    /\ Fields(op.datagram).packetType = MSGSTATUS
    /\ Fields(op.datagram).packetID = 0
    /\ timers # <<>>
    /\ Len(Calls(events, "onmessage")) = 1
    /\ connectedClients[1].receivedMessageIDsFIFO = <<0>>

=============================================================================
